---- MODULE Spec2Model ----
(***************************************************************************)
(* twin-cipher: a dual-secret steganographic container.                    *)
(*                                                                         *)
(* Part 1 models src/src/lib/steganography.ts (the LSB codec and the       *)
(* container serializer) as operators over RGBA pixel buffers.             *)
(* Part 2 models the React handlers that drive it (Embed, Extract, Vault)  *)
(* as a state machine whose steps are the handlers' await points.          *)
(*                                                                         *)
(* A pixel buffer is a sequence of channel values 0..255, four per pixel   *)
(* (R, G, B, A); the JavaScript index i is the TLA+ index i + 1.           *)
(***************************************************************************)
EXTENDS Integers, Sequences, FiniteSets, TLC

(***************************************************************************)
(* Bounds of the model (not program constants).                            *)
(***************************************************************************)
\* ciphertext lengths 0..MaxCipherLen are enumerated for the codec inputs
MaxCipherLen == 2
\* number of handleEmbed runs that pass the input guards
MaxEmbeds == 1
\* number of handleExtract runs that pass the input guard
MaxExtracts == 2
\* number of kill-switch and delete operations the vault user confirms for
\* each image the vault has shown
MaxVaultOps == 1
\* number of openShareModal, addEmail and removeEmail calls
MaxShareOps == 3

(***************************************************************************)
(* Program constants.                                                      *)
(***************************************************************************)
\* steganography.ts:144,157  nameLength > 2000 is rejected
MaxNameLength == 2000
\* Embed.tsx:44  const overhead = 150
overhead == 150

\* largest value the model's integers hold; stands for every larger uint32
MaxInt == 2147483647

Min(a, b) == IF a < b THEN a ELSE b

\* a buffer built element by element, held as an array of its values
AsArray(f) == SubSeq(f, 1, Len(f))

RECURSIVE Pow2(_)
Pow2(n) == IF n = 0 THEN 1 ELSE 2 * Pow2(n - 1)

RECURSIVE Concat(_)
\* [...a, ...b, ...] : the spread of a sequence of byte sequences
Concat(seqs) == IF seqs = <<>> THEN <<>> ELSE Head(seqs) \o Concat(Tail(seqs))

(***************************************************************************)
(* TextEncoder / TextDecoder (platform UTF-8 codec).  A string is a        *)
(* sequence of UTF-16 code units, as in JavaScript.                        *)
(***************************************************************************)
IsHighSurrogate(u) == u >= 55296 /\ u <= 56319
IsLowSurrogate(u) == u >= 56320 /\ u <= 57343
ReplacementChar == 65533
ByteOrderMark == 65279

\* UTF-8 bytes of one scalar value
Utf8OfScalar(cp) ==
    IF cp < 128 THEN <<cp>>
    ELSE IF cp < 2048 THEN <<192 + (cp \div 64), 128 + (cp % 64)>>
    ELSE IF cp < 65536
        THEN <<224 + (cp \div 4096), 128 + ((cp \div 64) % 64), 128 + (cp % 64)>>
    ELSE <<240 + (cp \div 262144), 128 + ((cp \div 4096) % 64),
           128 + ((cp \div 64) % 64), 128 + (cp % 64)>>

RECURSIVE TextEncodeFrom(_, _)
\* the encoding of the code units of s from index i on: surrogate pairs
\* combine, a lone surrogate is encoded as U+FFFD
TextEncodeFrom(s, i) ==
    IF i > Len(s) THEN <<>>
    ELSE LET u == s[i] IN
         IF IsHighSurrogate(u) /\ Len(s) >= i + 1 /\ IsLowSurrogate(s[i + 1])
         THEN Utf8OfScalar(65536 + (u - 55296) * 1024 + (s[i + 1] - 56320))
                  \o TextEncodeFrom(s, i + 2)
         ELSE IF IsHighSurrogate(u) \/ IsLowSurrogate(u)
         THEN Utf8OfScalar(ReplacementChar) \o TextEncodeFrom(s, i + 1)
         ELSE Utf8OfScalar(u) \o TextEncodeFrom(s, i + 1)

\* new TextEncoder().encode(s)
TextEncode(s) == AsArray(TextEncodeFrom(s, 1))

IsCont(b) == b >= 128 /\ b <= 191

\* UTF-16 code units of one scalar value
Utf16OfScalar(cp) ==
    IF cp < 65536 THEN <<cp>>
    ELSE <<55296 + ((cp - 65536) \div 1024), 56320 + ((cp - 65536) % 1024)>>

RECURSIVE Utf8Decode(_)
\* UTF-8 decoding with replacement: a byte that starts no well-formed
\* sequence becomes U+FFFD
Utf8Decode(b) ==
    IF b = <<>> THEN <<>>
    ELSE LET b1 == b[1]
             n == Len(b)
             rest(k) == SubSeq(b, k + 1, n)
         IN
         IF b1 < 128 THEN <<b1>> \o Utf8Decode(rest(1))
         ELSE IF b1 >= 194 /\ b1 <= 223 /\ n >= 2 /\ IsCont(b[2])
         THEN <<(b1 - 192) * 64 + (b[2] - 128)>> \o Utf8Decode(rest(2))
         ELSE IF b1 >= 224 /\ b1 <= 239 /\ n >= 3 /\ IsCont(b[2]) /\ IsCont(b[3])
                 /\ (b1 = 224 => b[2] >= 160) /\ (b1 = 237 => b[2] <= 159)
         THEN <<(b1 - 224) * 4096 + (b[2] - 128) * 64 + (b[3] - 128)>>
                  \o Utf8Decode(rest(3))
         ELSE IF b1 >= 240 /\ b1 <= 244 /\ n >= 4
                 /\ IsCont(b[2]) /\ IsCont(b[3]) /\ IsCont(b[4])
                 /\ (b1 = 240 => b[2] >= 144) /\ (b1 = 244 => b[2] <= 143)
         THEN Utf16OfScalar((b1 - 240) * 262144 + (b[2] - 128) * 4096
                            + (b[3] - 128) * 64 + (b[4] - 128))
                  \o Utf8Decode(rest(4))
         ELSE <<ReplacementChar>> \o Utf8Decode(rest(1))

\* new TextDecoder().decode(bytes): ignoreBOM is false, so a leading
\* byte-order mark is dropped
TextDecode(b) ==
    LET s == Utf8Decode(b) IN
    IF s # <<>> /\ Head(s) = ByteOrderMark THEN Tail(s) ELSE s

(***************************************************************************)
(* intToBytes / bytesToInt  (steganography.ts:190-204)                     *)
(***************************************************************************)
\* (num >> (i * 8)) & 0xff for i = byteCount-1 .. 0, pushed in that order.
\* num is a length, 0 <= num < 2^31, so >> is the arithmetic division.
intToBytes(num, byteCount) ==
    AsArray([k \in 1..byteCount |-> (num \div Pow2((byteCount - k) * 8)) % 256])

RECURSIVE BytesToIntFrom(_, _)
BytesToIntFrom(num, bytes) ==
    IF bytes = <<>> THEN num
    ELSE IF num >= 8388608 THEN MaxInt   \* the next shift leaves the model's range
    ELSE BytesToIntFrom(num * 256 + Head(bytes), Tail(bytes))

\* num = (num << 8) | bytes[i]; return num >>> 0.  Values of 2^31 and above
\* are all represented by MaxInt.
bytesToInt(bytes) == BytesToIntFrom(0, bytes)

(***************************************************************************)
(* Image files and the canvas.  A decoded image file is a record           *)
(* [width, height, data]; PNG is lossless, so canvas.toBlob followed by     *)
(* loadImage returns the canvas content.                                   *)
(***************************************************************************)
\* ctx.fillStyle = '#000000'; fillRect; drawImage(img)  (steganography.ts:17-23):
\* source-over on an opaque black backdrop: the result is opaque and each
\* colour is the source colour scaled by the source alpha
CompositeOnBlack(data) ==
    AsArray([k \in 1..Len(data) |->
        IF k % 4 = 0 THEN 255
        ELSE (data[k] * data[k + (4 - (k % 4))]) \div 255])

\* What a canvas keeps of a buffer it is given (drawImage on a cleared canvas
\* at steganography.ts:106, putImageData at :79): an opaque pixel is kept
\* exactly, a fully transparent pixel reads back as transparent black, and a
\* partly transparent one goes through the premultiplied form.
CanvasStore(data) ==
    AsArray([k \in 1..Len(data) |->
        LET a == data[k + ((4 - (k % 4)) % 4)] IN
        IF k % 4 = 0 \/ a = 255 THEN data[k]
        ELSE IF a = 0 THEN 0
        ELSE Min(255, ((((data[k] * a) \div 255) * 255) \div a))])

\* FIX 2 (steganography.ts:26-29): pixels[i + 3] = 255 for every pixel
ForceOpaque(pixels) ==
    AsArray([k \in 1..Len(pixels) |-> IF k % 4 = 0 THEN 255 ELSE pixels[k]])

(***************************************************************************)
(* embedDataInImage  (steganography.ts:1-90)                               *)
(***************************************************************************)
\* headerBytes and totalData (steganography.ts:37-50)
headerBytes(realLen, decoyLen, realFileNameBytes, decoyFileNameBytes) ==
    Concat(<< intToBytes(Len(realFileNameBytes), 2),
              realFileNameBytes,
              intToBytes(realLen, 4),
              intToBytes(Len(decoyFileNameBytes), 2),
              decoyFileNameBytes,
              intToBytes(decoyLen, 4) >>)

totalData(realBytes, decoyBytes, realFileName, decoyFileName) ==
    Concat(<< headerBytes(Len(realBytes), Len(decoyBytes),
                          TextEncode(realFileName), TextEncode(decoyFileName)),
              realBytes,
              decoyBytes >>)

\* const maxCapacity = Math.floor((pixels.length / 4) * 3)  (steganography.ts:52)
maxCapacity(pixels) == (Len(pixels) \div 4) * 3

\* (currentByte >> (7 - bitIndex)) & 1
BitOf(byte, bitIndex) == (byte \div Pow2(7 - bitIndex)) % 2

\* a write that clears the two low bits before placing the bit
MutSetLsbClearsTwo(value, bit) == (value - (value % 4)) + bit

\* (pixels[i + channel] & 0xfe) | bit
SetLsb(value, bit) == (value - (value % 2)) + bit

\* the loop body visiting four channels per pixel instead of three
MutWriteStepFourChannels(st, data, j) ==
    IF st.byteIndex >= Len(data) THEN st
    ELSE LET i == 4 * (j \div 4)
             channel == j % 4
             bit == BitOf(data[st.byteIndex + 1], st.bitIndex)
             px == [st.pixels EXCEPT ![i + channel + 1] =
                                         SetLsb(st.pixels[i + channel + 1], bit)]
         IN IF st.bitIndex + 1 = 8
            THEN [pixels |-> px, byteIndex |-> st.byteIndex + 1, bitIndex |-> 0]
            ELSE [pixels |-> px, byteIndex |-> st.byteIndex, bitIndex |-> st.bitIndex + 1]

\* One pass of the inner loop body (steganography.ts:63-76) for the channel
\* visit number j in raster order: i = 4 * (j div 3), channel = j % 3.
\* st holds pixels and the loop variables byteIndex and bitIndex.  Once
\* byteIndex >= totalData.length the inner loop breaks and the outer loop
\* ends, so later visits change nothing.
WriteStep(st, data, j) ==
    IF st.byteIndex >= Len(data) THEN st
    ELSE LET i == 4 * (j \div 3)
             channel == j % 3
             bit == BitOf(data[st.byteIndex + 1], st.bitIndex)
             px == [st.pixels EXCEPT ![i + channel + 1] =
                                         SetLsb(st.pixels[i + channel + 1], bit)]
         IN IF st.bitIndex + 1 = 8
            THEN [pixels |-> px, byteIndex |-> st.byteIndex + 1, bitIndex |-> 0]
            ELSE [pixels |-> px, byteIndex |-> st.byteIndex, bitIndex |-> st.bitIndex + 1]

RECURSIVE WriteRange(_, _, _, _)
\* the channel visits lo .. hi-1 in order (split in halves to keep the
\* evaluation shallow)
WriteRange(st, data, lo, hi) ==
    IF hi <= lo THEN st
    ELSE IF hi = lo + 1 THEN WriteStep(st, data, lo)
    ELSE LET mid == (lo + hi) \div 2
             first == WriteRange(st, data, lo, mid)
         IN IF first.byteIndex >= Len(data) THEN first
            ELSE WriteRange(first, data, mid, hi)

\* the nested for loops of steganography.ts:59-77: every pixel with
\* i < pixels.length, three channels each.  Returns the buffer and the
\* counters the loops end with.
WriteLoop(pixels, data) ==
    WriteRange([pixels |-> pixels, byteIndex |-> 0, bitIndex |-> 0],
               data, 0, 3 * (Len(pixels) \div 4))

\* embedDataInImage with the capacity check moved behind the write loop
MutEmbedCheckAfterWrite(coverImage, realBytes, decoyBytes, realFileName, decoyFileName) ==
    LET decoded == CompositeOnBlack(coverImage.data)
        data == totalData(realBytes, decoyBytes, realFileName, decoyFileName)
        w == WriteLoop(ForceOpaque(decoded), data)
    IN
    IF Len(data) > maxCapacity(w.pixels)
    THEN [ok |-> FALSE, error |-> "Image too small", decoded |-> decoded,
          pixels |-> w.pixels, data |-> data, byteIndex |-> w.byteIndex,
          blob |-> [width |-> 0, height |-> 0, data |-> <<>>]]
    ELSE [ok |-> TRUE, error |-> "", decoded |-> decoded,
          pixels |-> w.pixels, data |-> data, byteIndex |-> w.byteIndex,
          blob |-> [width |-> coverImage.width, height |-> coverImage.height,
                    data |-> CanvasStore(w.pixels)]]

\* The whole function on a decoded cover image.  The result records the
\* locals the claims speak of: decoded (imageData.data at line 23), pixels
\* (the buffer at return or throw), data (totalData), byteIndex (at loop end).
embedDataInImage(coverImage, realBytes, decoyBytes, realFileName, decoyFileName) ==
    LET decoded == CompositeOnBlack(coverImage.data)
        opaque == ForceOpaque(decoded)
        data == totalData(realBytes, decoyBytes, realFileName, decoyFileName)
    IN
    IF Len(data) > maxCapacity(opaque)
    THEN [ok |-> FALSE, error |-> "Image too small", decoded |-> decoded,
          pixels |-> opaque, data |-> data, byteIndex |-> 0,
          blob |-> [width |-> 0, height |-> 0, data |-> <<>>]]
    ELSE LET w == WriteLoop(opaque, data) IN
         [ok |-> TRUE, error |-> "", decoded |-> decoded,
          pixels |-> w.pixels, data |-> data, byteIndex |-> w.byteIndex,
          blob |-> [width |-> coverImage.width, height |-> coverImage.height,
                    data |-> CanvasStore(w.pixels)]]

(***************************************************************************)
(* extractDataFromImage  (steganography.ts:92-178)                         *)
(***************************************************************************)
\* the loop body assembling each byte least-significant bit first
MutReadStepLsbFirst(st, pixels) ==
    IF ~st.ok THEN st
    ELSE LET pixelIndex == (st.pos \div 3) * 4
             channelIndex == st.pos % 3
             index == pixelIndex + channelIndex
         IN IF pixelIndex >= Len(pixels)
            THEN [st EXCEPT !.ok = FALSE]
            ELSE LET lsb == pixels[index + 1] % 2
                     byte == st.byte + lsb * Pow2(st.bit)
                     stray == st.stray \/ index % 4 = 3 \/ index >= Len(pixels)
                 IN IF st.bit + 1 = 8
                    THEN [ok |-> TRUE, bytes |-> Append(st.bytes, byte), byte |-> 0,
                          bit |-> 0, pos |-> st.pos + 1, stray |-> stray]
                    ELSE [ok |-> TRUE, bytes |-> st.bytes, byte |-> byte,
                          bit |-> st.bit + 1, pos |-> st.pos + 1, stray |-> stray]

\* the loop body with the end test one pixel early
MutReadStepStopsEarly(st, pixels) ==
    IF ~st.ok THEN st
    ELSE LET pixelIndex == (st.pos \div 3) * 4
             channelIndex == st.pos % 3
             index == pixelIndex + channelIndex
         IN IF pixelIndex + 4 >= Len(pixels)
            THEN [st EXCEPT !.ok = FALSE]
            ELSE LET lsb == pixels[index + 1] % 2
                     byte == st.byte * 2 + lsb
                     stray == st.stray \/ index % 4 = 3 \/ index >= Len(pixels)
                 IN IF st.bit + 1 = 8
                    THEN [ok |-> TRUE, bytes |-> Append(st.bytes, byte), byte |-> 0,
                          bit |-> 0, pos |-> st.pos + 1, stray |-> stray]
                    ELSE [ok |-> TRUE, bytes |-> st.bytes, byte |-> byte,
                          bit |-> st.bit + 1, pos |-> st.pos + 1, stray |-> stray]

\* One pass of the inner loop body of extractBytes (steganography.ts:118-134).
\* st: ok (no throw so far), bytes pushed, the byte being assembled, the
\* number of its bits read, and pos = byteIndex * 8 + bitIndex.  `stray`
\* records, for the properties, whether some pass read an alpha channel or
\* an index outside the buffer.
ReadStep(st, pixels) ==
    IF ~st.ok THEN st
    ELSE LET pixelIndex == (st.pos \div 3) * 4
             channelIndex == st.pos % 3
             index == pixelIndex + channelIndex
         IN IF pixelIndex >= Len(pixels)
            THEN [st EXCEPT !.ok = FALSE]
            ELSE LET lsb == pixels[index + 1] % 2
                     byte == st.byte * 2 + lsb
                     stray == st.stray \/ index % 4 = 3 \/ index >= Len(pixels)
                 IN IF st.bit + 1 = 8
                    THEN [ok |-> TRUE, bytes |-> Append(st.bytes, byte), byte |-> 0,
                          bit |-> 0, pos |-> st.pos + 1, stray |-> stray]
                    ELSE [ok |-> TRUE, bytes |-> st.bytes, byte |-> byte,
                          bit |-> st.bit + 1, pos |-> st.pos + 1, stray |-> stray]

RECURSIVE ReadRange(_, _, _)
\* n passes of the loop body in order (split in halves to keep the
\* evaluation shallow)
ReadRange(st, pixels, n) ==
    IF n <= 0 THEN st
    ELSE IF n = 1 THEN ReadStep(st, pixels)
    ELSE LET first == ReadRange(st, pixels, n \div 2)
         IN IF ~first.ok THEN first
            ELSE ReadRange(first, pixels, n - (n \div 2))

\* extractBytes(count) (steganography.ts:114-138), started at reader position
\* pos.  The loops run 8 * count passes; the pass that finds pixelIndex
\* beyond the buffer throws, so at most (bits left + 1) passes run.
extractBytes(pixels, count, pos) ==
    LET left == 3 * (Len(pixels) \div 4) - pos
        avail == IF left < 0 THEN 0 ELSE left
        passes == IF count > avail THEN avail + 1 ELSE 8 * count
        r == ReadRange([ok |-> TRUE, bytes |-> <<>>, byte |-> 0, bit |-> 0, pos |-> pos,
                        stray |-> FALSE],
                       pixels, passes)
    IN [ok |-> r.ok, bytes |-> r.bytes, pos |-> r.pos, stray |-> r.stray]

ErrEnd == "Unexpected end of data"
ErrRealName == "Invalid real filename length"
ErrDecoyName == "Invalid decoy filename length"

NoFile == [name |-> <<>>, data |-> <<>>]
\* a call that threw msg after the reader had consumed `read` bits
ExtractFailAt(msg, read) ==
    [ok |-> FALSE, error |-> msg, realFile |-> NoFile, decoyFile |-> NoFile,
     read |-> read]
ExtractFail(msg) == ExtractFailAt(msg, 0)

\* the name-length check without its upper bound
MutValidNameLengthNoUpper(n) == ~(n <= 0)

\* the negation of: length <= 0 || length > 2000  (steganography.ts:144,157)
ValidNameLength(n) == ~(n <= 0 \/ n > MaxNameLength)

\* the try block of steganography.ts:140-173 on the buffer read at line 108.
\* The result has no imageId field: the function returns {realFile, decoyFile}.
\* `read` is the reader position at the end of the call, kept for the properties.
ParseContainer(pixels) ==
    LET r1 == extractBytes(pixels, 2, 0) IN
    IF ~r1.ok THEN ExtractFailAt(ErrEnd, r1.pos) ELSE
    LET realFileNameLength == bytesToInt(r1.bytes) IN
    IF ~ValidNameLength(realFileNameLength) THEN ExtractFailAt(ErrRealName, r1.pos) ELSE
    LET r2 == extractBytes(pixels, realFileNameLength, r1.pos) IN
    IF ~r2.ok THEN ExtractFailAt(ErrEnd, r2.pos) ELSE
    LET r3 == extractBytes(pixels, 4, r2.pos) IN
    IF ~r3.ok THEN ExtractFailAt(ErrEnd, r3.pos) ELSE
    LET r4 == extractBytes(pixels, 2, r3.pos) IN
    IF ~r4.ok THEN ExtractFailAt(ErrEnd, r4.pos) ELSE
    LET decoyFileNameLength == bytesToInt(r4.bytes) IN
    IF ~ValidNameLength(decoyFileNameLength) THEN ExtractFailAt(ErrDecoyName, r4.pos) ELSE
    LET r5 == extractBytes(pixels, decoyFileNameLength, r4.pos) IN
    IF ~r5.ok THEN ExtractFailAt(ErrEnd, r5.pos) ELSE
    LET r6 == extractBytes(pixels, 4, r5.pos) IN
    IF ~r6.ok THEN ExtractFailAt(ErrEnd, r6.pos) ELSE
    LET r7 == extractBytes(pixels, bytesToInt(r3.bytes), r6.pos) IN
    IF ~r7.ok THEN ExtractFailAt(ErrEnd, r7.pos) ELSE
    LET r8 == extractBytes(pixels, bytesToInt(r6.bytes), r7.pos) IN
    IF ~r8.ok THEN ExtractFailAt(ErrEnd, r8.pos) ELSE
    [ok |-> TRUE, error |-> "",
     realFile |-> [name |-> TextDecode(r2.bytes), data |-> r7.bytes],
     decoyFile |-> [name |-> TextDecode(r5.bytes), data |-> r8.bytes],
     read |-> r8.pos]

extractDataFromImage(stegoImage) == ParseContainer(CanvasStore(stegoImage.data))

(***************************************************************************)
(* Inputs of the codec model.                                              *)
(***************************************************************************)
\* n bytes that differ from one another and between seeds
Fill(n, seed) == AsArray([i \in 1..n |-> (seed + 37 * i) % 256])

\* the low bits of the colour values of the "chance" picture, eight per
\* entry: a picture that was never given to embedDataInImage, in which the
\* low bits happen to read 0,1,"a",0,0,0,0 twice
ChanceBytes == <<0, 1, 97, 0, 0, 0, 0, 0, 1, 97, 0, 0, 0, 0>>
ChanceValue(k) ==
    LET j == 3 * ((k - 1) \div 4) + ((k - 1) % 4)
    IN IF j < 8 * Len(ChanceBytes)
       THEN 200 + BitOf(ChanceBytes[(j \div 8) + 1], j % 8)
       ELSE 200

\* cover pixels: opaque black, opaque white, and a mix of colours with
\* opaque, transparent and half transparent pixels
CoverPatterns == {"black", "white", "mixed"}
CoverData(w, h, pat) ==
    AsArray([k \in 1..(4 * w * h) |->
        IF pat = "black" THEN (IF k % 4 = 0 THEN 255 ELSE 0)
        ELSE IF pat = "white" THEN 255
        ELSE IF pat = "chance" THEN (IF k % 4 = 0 THEN 255 ELSE ChanceValue(k))
        ELSE IF k % 4 = 0 THEN (CASE (k \div 4) % 3 = 0 -> 255
                                  [] (k \div 4) % 3 = 1 -> 0
                                  [] OTHER -> 128)
        ELSE (k * 37 + 11) % 256])

Image(w, h, pat) == [width |-> w, height |-> h, data |-> CoverData(w, h, pat)]

\* file names as UTF-16 code units: "", "a", "eb" with e-acute, a lone surrogate
FileNames == { <<>>, <<97>>, <<233, 98>>, <<55296>> }

CipherTexts == { Fill(n, seed) : n \in 0..MaxCipherLen, seed \in {1, 170} }

SmallCovers == { Image(d[1], d[2], pat) : d \in {<<2, 3>>, <<5, 8>>}, pat \in CoverPatterns }

\* the 10x10 scenario of the specification: containers of 37 and of 38 bytes
ScenarioInputs ==
    { [cover |-> Image(10, 10, "mixed"), realName |-> <<97>>, decoyName |-> <<97>>,
       realData |-> Fill(n, 1), decoyData |-> Fill(12, 170)] : n \in {11, 12} }

\* the chance picture as a cover
ChanceInputs ==
    { [cover |-> Image(5, 8, "chance"), realName |-> <<97>>, decoyName |-> <<97>>,
       realData |-> <<>>, decoyData |-> <<>>] }

\* two one-byte files whose names are n euro signs (three UTF-8 bytes each)
\* and a 20x21 cover, which holds 157 bytes
NameLengths == {1, 27}
EuroName(n) == AsArray([k \in 1..n |-> 8364])
GuardInputs ==
    { [cover |-> Image(20, 21, "mixed"), realName |-> EuroName(n),
       decoyName |-> EuroName(n), realData |-> Fill(1, 1),
       decoyData |-> Fill(1, 170)] : n \in NameLengths }

CodecInputs ==
    [cover : SmallCovers, realName : FileNames, decoyName : FileNames,
     realData : CipherTexts, decoyData : CipherTexts]
    \cup ScenarioInputs \cup ChanceInputs \cup GuardInputs

NoEmbed == [ok |-> FALSE, error |-> "not run", decoded |-> <<>>, pixels |-> <<>>,
            data |-> <<>>, byteIndex |-> 0,
            blob |-> [width |-> 0, height |-> 0, data |-> <<>>]]
NoExtract == ExtractFail("not run")

VARIABLES
    cIn,        \* the arguments of one embedDataInImage call
    cPhase,     \* "input", "embedded", "extracted", "coverExtracted", "read", "header", "guard"
    cEmbed,     \* what embedDataInImage returned (or threw)
    cExtract    \* what extractDataFromImage, extractBytes or the header build returned

codecVars == <<cIn, cPhase, cEmbed, cExtract>>

(***************************************************************************)
(* State of the workflow: the store, and the Embed, Extract and Vault      *)
(* components.                                                             *)
(***************************************************************************)
VARIABLES
    extractVer,     \* which Extract component is deployed
    activeTab,      \* Dashboard: the tab whose component is mounted
    rows,           \* the stego_images table (metadata store)
    bucket,         \* the stego-images storage bucket: {[path, blob]}
    disk,           \* image files the user can pick in a file input
    issued,         \* number of identifiers crypto.randomUUID has returned
    produced,       \* history: one record per handleEmbed that reported success
    \* Embed component (useState)
    coverImage, secretFile, decoyFile, realPassword, duressPassword,
    eLoading, eError, success, capacity,
    calcs,          \* calculateCapacity calls waiting in img.decode()
    eRun,           \* the handleEmbed call in flight: its position and locals
    \* Extract component (useState)
    stegoImage, password, xLoading, xError, extractedFile,
    xRun,           \* the latest handleExtract call: its position and locals
    xStarted,       \* number of handleExtract calls that passed the input guard
    \* Vault component
    myImages,       \* useState: the rows loadImages fetched
    vTasks,         \* handleKillSwitch / handleDelete calls in flight
    vOps,           \* number of kill-switch / delete operations confirmed
    vDone,          \* history: the operations of the mounted Vault that ended
    vLoading,       \* the loadImages call of the mount effect is in flight
    noted,          \* rows whose salts and IVs the vault has shown to the user
    \* Vault component, share modal
    allowed_emails, \* the allowed_emails column of stego_images: {[id, emails]}
    shareModalOpen, \* useState: the id of the image whose modal is open, or Null
    emailInput,     \* useState: the text of the modal's input
    allowedEmails,  \* useState: [emails, from]; from = the image the list was loaded from
    shareTasks,     \* openShareModal fetches and addEmail / removeEmail updates in flight
    shareOps,       \* number of openShareModal, addEmail and removeEmail calls made
    shareLog        \* history: the updates of allowed_emails sent to the table

storeVars == <<rows, bucket, disk, issued, produced>>
embedVars == <<coverImage, secretFile, decoyFile, realPassword, duressPassword,
               eLoading, eError, success, capacity, calcs, eRun>>
extractVars == <<stegoImage, password, xLoading, xError, extractedFile, xRun, xStarted>>
shareVars == <<allowed_emails, shareModalOpen, emailInput, allowedEmails, shareTasks,
               shareOps, shareLog>>
vaultVars == <<myImages, vTasks, vOps, vDone, vLoading, noted, shareVars>>
workflowVars == <<extractVer, activeTab, storeVars, embedVars, extractVars, vaultVars>>
vars == <<workflowVars, codecVars>>

CodecInit ==
    /\ cIn \in CodecInputs
    /\ cPhase = "input"
    /\ cEmbed = NoEmbed
    /\ cExtract = NoExtract

\* a call of embedDataInImage
CodecEmbed ==
    /\ cPhase = "input"
    /\ cEmbed' = embedDataInImage(cIn.cover, cIn.realData, cIn.decoyData,
                                  cIn.realName, cIn.decoyName)
    /\ cPhase' = "embedded"
    /\ UNCHANGED <<cIn, cExtract>>
    /\ UNCHANGED workflowVars

\* a call of extractDataFromImage on the image embedDataInImage produced
CodecExtract ==
    /\ cPhase = "embedded"
    /\ cEmbed.ok
    /\ cExtract' = extractDataFromImage(cEmbed.blob)
    /\ cPhase' = "extracted"
    /\ UNCHANGED <<cIn, cEmbed>>
    /\ UNCHANGED workflowVars

\* a call of extractDataFromImage on an image nothing was embedded in
CodecExtractCover ==
    /\ cPhase = "input"
    /\ cExtract' = extractDataFromImage(cIn.cover)
    /\ cPhase' = "coverExtracted"
    /\ UNCHANGED <<cIn, cEmbed>>
    /\ UNCHANGED workflowVars

\* the capacity state calculateCapacity sets after img.decode()
\* (Embed.tsx:40-50), from the width and height of the decoded picture;
\* percent is kept as the fraction usedBytes * 100 / totalBytes
CapacityOf(img, secretSize, decoySize) ==
    LET totalBytes == (img.width * img.height * 3) \div 8
        usedBytes == overhead + secretSize + decoySize
    IN [total |-> totalBytes, used |-> usedBytes,
        percent |-> <<usedBytes * 100, totalBytes>>]

\* capacity.percent > 100, where percent = (used / total) * 100 and a division
\* by zero gives Infinity
PercentOver100(c) ==
    IF c.percent[2] = 0 THEN c.percent[1] > 0 ELSE c.percent[1] > 100 * c.percent[2]

\* the capacity guard of handleEmbed (Embed.tsx:70-73) on a freshly computed
\* capacity, next to the container embedDataInImage builds for the same
\* files.  The sizes of the files are taken equal to the lengths of their
\* ciphertexts, the most they can be.
CodecGuard ==
    /\ cPhase = "input"
    /\ LET c == CapacityOf(cIn.cover, Len(cIn.realData), Len(cIn.decoyData))
       IN cExtract' = [capacity |-> c,
                       rejected |-> PercentOver100(c),
                       container |-> Len(totalData(cIn.realData, cIn.decoyData,
                                                   cIn.realName, cIn.decoyName))]
    /\ cPhase' = "guard"
    /\ UNCHANGED <<cIn, cEmbed>>
    /\ UNCHANGED workflowVars

\* the byte counts and reader positions (whole bytes) extractBytes is called with
ReadCounts == {0, 1, 2, 15, 16}
ReadStarts == {0, 8, 16, 112, 120}

\* a call of extractBytes(count) on the pixels of the cover with the reader
\* at position start.  The call does not depend on the other arguments, so
\* it is made for empty ciphertexts only.
CodecRead ==
    /\ cPhase = "input"
    /\ cIn.realData = <<>> /\ cIn.decoyData = <<>>
    /\ \E count \in ReadCounts, start \in ReadStarts :
          LET r == extractBytes(CanvasStore(cIn.cover.data), count, start)
          IN cExtract' = [ok |-> r.ok, bytes |-> r.bytes, pos |-> r.pos,
                          stray |-> r.stray, count |-> count, start |-> start]
    /\ cPhase' = "read"
    /\ UNCHANGED <<cIn, cEmbed>>
    /\ UNCHANGED workflowVars

\* UTF-8 byte lengths of long file names, and the bytes of a name of n
\* letters "a" as TextEncoder gives them (one byte 97 per letter)
LongNameLengths == {2000, 2001, 65535, 65536}
LongNameBytes(n) == AsArray([k \in 1..n |-> 97])

\* the header embedDataInImage builds (steganography.ts:37-44) when the real
\* file has a long name.  The header does not depend on the cover, so it is
\* built for one cover and for empty ciphertexts only.
CodecHeader ==
    /\ cPhase = "input"
    /\ cIn.realData = <<>> /\ cIn.decoyData = <<>>
    /\ cIn.cover = Image(2, 3, "black")
    /\ \E n \in LongNameLengths :
          cExtract' = [nameLen |-> n,
                       header |-> headerBytes(Len(cIn.realData), Len(cIn.decoyData),
                                              LongNameBytes(n),
                                              TextEncode(cIn.decoyName))]
    /\ cPhase' = "header"
    /\ UNCHANGED <<cIn, cEmbed>>
    /\ UNCHANGED workflowVars

CodecNext ==
    \/ CodecEmbed \/ CodecExtract \/ CodecExtractCover
    \/ CodecRead \/ CodecHeader \/ CodecGuard

\* capacityBytes = floor(width * height * 3 / 8) of the specification
capacityBytes(img) == (img.width * img.height * 3) \div 8

(***************************************************************************)
(* Properties of the codec, checked under SpecCodec.                       *)
(***************************************************************************)
Fits == Len(cEmbed.data) <= capacityBytes(cIn.cover)

RoundTripExact ==
    /\ cExtract.ok
    /\ cExtract.realFile.name = cIn.realName
    /\ cExtract.realFile.data = cIn.realData
    /\ cExtract.decoyFile.name = cIn.decoyName
    /\ cExtract.decoyFile.data = cIn.decoyData

\* C1: container round trip.  Whenever the serialized container is at most
\* floor(w*h*3/8) bytes long, extractDataFromImage on the image that
\* embedDataInImage produced returns both names and both byte sequences as
\* they were given.
C1_RoundTrip == (cPhase = "extracted" /\ Fits) => RoundTripExact

\* a name TextEncoder and TextDecoder carry unchanged and whose encoded
\* length the extractor accepts
RoundTripName(name) ==
    /\ TextDecode(TextEncode(name)) = name
    /\ ValidNameLength(Len(TextEncode(name)))

\* The round trip does hold for the names the extractor accepts.
C1_RoundTripAcceptedNames ==
    (cPhase = "extracted" /\ Fits /\ RoundTripName(cIn.realName)
        /\ RoundTripName(cIn.decoyName)) => RoundTripExact

\* C2: capacity rejection.  embedDataInImage fails with the capacity error
\* whenever the container is longer than floor(w*h*3/8) bytes; on a 10x10
\* image 37 bytes are accepted and 38 bytes are rejected.
C2_CapacityRejection ==
    cPhase = "embedded" =>
        /\ ~Fits => (~cEmbed.ok /\ cEmbed.error = "Image too small")
        /\ (cIn.cover.width = 10 /\ cIn.cover.height = 10 /\ Len(cEmbed.data) = 37)
              => cEmbed.ok

\* the least-significant bit of the channel that bit k of the stream goes to
PlacedBit(pixels, k) == pixels[4 * (k \div 3) + (k % 3) + 1] % 2

\* bit k of the stream, most-significant bit of each byte first
StreamBit(data, k) == BitOf(data[(k \div 8) + 1], k % 8)

\* C3: no partial write.  A call of embedDataInImage that returns without an
\* error has placed every bit of the container in the pixel buffer: the write
\* loop ended with byteIndex = totalData.length.
C3_NoPartialWrite ==
    (cPhase = "embedded" /\ cEmbed.ok) =>
        /\ cEmbed.byteIndex = Len(cEmbed.data)
        /\ \A k \in 0..(8 * Len(cEmbed.data) - 1) :
              /\ 4 * (k \div 3) + (k % 3) + 1 <= Len(cEmbed.pixels)
              /\ PlacedBit(cEmbed.pixels, k) = StreamBit(cEmbed.data, k)

\* C4: the capacity check precedes every pixel mutation.  When embedDataInImage
\* fails its capacity check, every element of the pixel buffer, colour and
\* alpha, still has the value getImageData returned for the cover image.
C4_NoMutationOnCapacityFailure ==
    (cPhase = "embedded" /\ ~cEmbed.ok) => cEmbed.pixels = cEmbed.decoded

\* a capacity failure on a cover that has transparent pixels
C4_Witness ==
    /\ cPhase = "embedded"
    /\ ~cEmbed.ok
    /\ cEmbed.error = "Image too small"
    /\ \E k \in 1..Len(cIn.cover.data) : k % 4 = 0 /\ cIn.cover.data[k] # 255
    /\ cEmbed.pixels = cEmbed.decoded

(***************************************************************************)
(* PART 2: the workflow.                                                   *)
(*                                                                         *)
(* lib/crypto (encryptData, decryptData, the base64 helpers) is not among  *)
(* the sources; it is modelled from the specification's Cryptographic      *)
(* Envelope: open() succeeds for exactly the password, salt and IV that    *)
(* sealed the ciphertext and fails authentication otherwise.               *)
(***************************************************************************)
Passwords == {"alpha", "bravo", "other"}
PwCode(pw) == CASE pw = "alpha" -> 1 [] pw = "bravo" -> 2 [] OTHER -> 3

\* the (salt, IV) pairs one encryptData call can draw
RandomDraws == { [salt |-> <<5>>, iv |-> <<3>>], [salt |-> <<9>>, iv |-> <<4>>] }

RECURSIVE SumBytes(_)
SumBytes(b) == IF b = <<>> THEN 0 ELSE Head(b) + SumBytes(Tail(b))

\* the key derived from (password, salt); distinct pairs give distinct keys
DeriveKey(pw, salt) == PwCode(pw) * 16 + salt[1]

\* the integrity tag: binds the key, the IV and the plaintext
Tag(key, iv, plain) == <<key, (iv[1] + SumBytes(plain)) % 256>>

\* encryptData(data, password) with the salt and IV it drew
encryptData(data, pw, salt, iv) ==
    LET key == DeriveKey(pw, salt) IN
    [encrypted |-> Tag(key, iv, data) \o AsArray([k \in 1..Len(data) |-> (data[k] + key) % 256]),
     salt |-> salt, iv |-> iv]

\* decryptData(encrypted, password, salt, iv): the plaintext, or a throw
decryptData(ct, pw, salt, iv) ==
    LET key == DeriveKey(pw, salt)
        body == SubSeq(ct, 3, Len(ct))
        plain == AsArray([k \in 1..Len(body) |-> (body[k] + 256 - key) % 256])
    IN IF Len(ct) >= 2 /\ <<ct[1], ct[2]>> = Tag(key, iv, plain)
       THEN [ok |-> TRUE, data |-> plain]
       ELSE [ok |-> FALSE, data |-> <<>>]

\* uint8ArrayToBase64 / base64ToUint8Array: a string that is not the bytes
uint8ArrayToBase64(bytes) == <<"base64", bytes>>
base64ToUint8Array(str) == str[2]

(***************************************************************************)
(* Files.  A cover file is named by its size and pattern; the PNG that     *)
(* embedDataInImage returned is held as the call that produced it and is   *)
(* decoded by evaluating that call.                                        *)
(***************************************************************************)
CoverFile(w, h, pat) == [kind |-> "cover", width |-> w, height |-> h, pattern |-> pat]
StegoFile(cover, realBytes, decoyBytes, realName, decoyName) ==
    [kind |-> "stego", cover |-> cover, realBytes |-> realBytes, decoyBytes |-> decoyBytes,
     realName |-> realName, decoyName |-> decoyName]

\* the image a browser decodes from a cover file
CoverPixels(f) == Image(f.width, f.height, f.pattern)

\* the image a browser decodes from a file (loadImage)
loadImage(f) ==
    IF f.kind = "cover" THEN CoverPixels(f)
    ELSE embedDataInImage(CoverPixels(f.cover), f.realBytes, f.decoyBytes,
                          f.realName, f.decoyName).blob

\* the user's files: a cover with room for 157 bytes, one with room for 15,
\* and two files to hide
BigCover == CoverFile(20, 21, "mixed")
TinyCover == CoverFile(5, 8, "mixed")
SecretFile == [kind |-> "file", name |-> <<115>>, bytes |-> <<83>>]
DecoyFile == [kind |-> "file", name |-> <<100>>, bytes |-> <<68>>]
Null == [kind |-> "null"]
Undefined == [kind |-> "undefined"]

ExtractVersions == {"Extract.tsx", "part_003", "part_004"}

\* useState<string[]>([]) of the share modal: no list loaded yet  (Vault.tsx:33)
NoEmails == [emails |-> <<>>, from |-> Null]

\* Vault.tsx:31-33
ShareInit ==
    /\ shareModalOpen = Null /\ emailInput = "" /\ allowedEmails = NoEmails
    /\ shareTasks = {} /\ shareOps = 0 /\ shareLog = {}

\* useState({ total: 0, used: 0, percent: 0 }); percent is kept as the
\* fraction <<numerator, denominator>> it is computed from
ZeroCapacity == [total |-> 0, used |-> 0, percent |-> <<0, 1>>]

IdleEmbed == [pc |-> "idle"]
IdleExtract == [pc |-> "idle", finished |-> FALSE, structural |-> {}]

WorkflowInit ==
    /\ extractVer \in ExtractVersions
    /\ activeTab = "embed"
    /\ rows = {} /\ bucket = {} /\ disk = {BigCover, TinyCover} /\ issued = 0 /\ produced = {}
    /\ coverImage = Null /\ secretFile = Null /\ decoyFile = Null
    /\ realPassword = "" /\ duressPassword = ""
    /\ eLoading = FALSE /\ eError = "" /\ success = FALSE
    /\ capacity = ZeroCapacity /\ calcs = {} /\ eRun = IdleEmbed
    /\ stegoImage = Null /\ password = ""
    /\ xLoading = FALSE /\ xError = "" /\ extractedFile = Null
    /\ xRun = IdleExtract /\ xStarted = 0
    /\ myImages = {} /\ vTasks = {} /\ vOps = 0 /\ vDone = {} /\ vLoading = FALSE /\ noted = {}
    /\ allowed_emails = {} /\ ShareInit

Init ==
    /\ WorkflowInit
    /\ cIn = Null /\ cPhase = "unused" /\ cEmbed = NoEmbed /\ cExtract = NoExtract

(***************************************************************************)
(* Embed component  (src/src/components/Embed.tsx:8-121)                   *)
(***************************************************************************)
FileSize(f) == IF f = Null THEN 0 ELSE Len(f.bytes)

\* the effect of Embed.tsx:23-25 after a render with the given files: the
\* synchronous part of calculateCapacity (Embed.tsx:27-37).  Without a cover
\* the capacity is reset at once; with one the call waits in img.decode().
CapacityEffect(cover, secret, decoy) ==
    IF cover = Null
    THEN /\ capacity' = ZeroCapacity
         /\ calcs' = calcs
    ELSE /\ capacity' = capacity
         /\ calcs' = calcs \cup {[cover |-> cover, secretSize |-> FileSize(secret),
                                  decoySize |-> FileSize(decoy)]}

\* onChange of the cover input: setCoverImage, then the capacity effect
SetCoverImage ==
    /\ activeTab = "embed"
    /\ issued < MaxEmbeds
    /\ coverImage = Null
    /\ \E f \in disk :
          /\ f.kind = "cover"
          /\ coverImage' = f
          /\ CapacityEffect(f, secretFile, decoyFile)
    /\ UNCHANGED <<secretFile, decoyFile, realPassword, duressPassword, eLoading,
                   eError, success, eRun>>
    /\ UNCHANGED <<extractVer, activeTab, storeVars, extractVars, vaultVars, codecVars>>

SetSecretFile ==
    /\ activeTab = "embed"
    /\ issued < MaxEmbeds
    /\ secretFile = Null
    /\ secretFile' = SecretFile
    /\ CapacityEffect(coverImage, SecretFile, decoyFile)
    /\ UNCHANGED <<coverImage, decoyFile, realPassword, duressPassword, eLoading,
                   eError, success, eRun>>
    /\ UNCHANGED <<extractVer, activeTab, storeVars, extractVars, vaultVars, codecVars>>

SetDecoyFile ==
    /\ activeTab = "embed"
    /\ issued < MaxEmbeds
    /\ decoyFile = Null
    /\ decoyFile' = DecoyFile
    /\ CapacityEffect(coverImage, secretFile, DecoyFile)
    /\ UNCHANGED <<coverImage, secretFile, realPassword, duressPassword, eLoading,
                   eError, success, eRun>>
    /\ UNCHANGED <<extractVer, activeTab, storeVars, extractVars, vaultVars, codecVars>>

SetRealPassword ==
    /\ activeTab = "embed"
    /\ issued < MaxEmbeds
    /\ realPassword = ""
    /\ realPassword' = "alpha"
    /\ UNCHANGED <<coverImage, secretFile, decoyFile, duressPassword, eLoading,
                   eError, success, capacity, calcs, eRun>>
    /\ UNCHANGED <<extractVer, activeTab, storeVars, extractVars, vaultVars, codecVars>>

SetDuressPassword ==
    /\ activeTab = "embed"
    /\ issued < MaxEmbeds
    /\ duressPassword = ""
    /\ \E pw \in {"alpha", "bravo"} : duressPassword' = pw
    /\ UNCHANGED <<coverImage, secretFile, decoyFile, realPassword, eLoading,
                   eError, success, capacity, calcs, eRun>>
    /\ UNCHANGED <<extractVer, activeTab, storeVars, extractVars, vaultVars, codecVars>>

\* calculateCapacity after await img.decode()  (Embed.tsx:39-50)
CalcDone ==
    /\ \E c \in calcs :
          /\ capacity' = CapacityOf(c.cover, c.secretSize, c.decoySize)
          /\ calcs' = calcs \ {c}
    /\ UNCHANGED <<coverImage, secretFile, decoyFile, realPassword, duressPassword,
                   eLoading, eError, success, eRun>>
    /\ UNCHANGED <<extractVer, activeTab, storeVars, extractVars, vaultVars, codecVars>>

\* handleEmbed up to its first await, without the comparison of the two
\* passwords
MutEmbedClickNoDistinct ==
    /\ activeTab = "embed"
    /\ ~eLoading
    /\ eRun.pc = "idle"
    /\ IF coverImage = Null \/ secretFile = Null \/ decoyFile = Null
          \/ realPassword = "" \/ duressPassword = ""
       THEN /\ eError' = "Please fill in all fields"
            /\ UNCHANGED <<eLoading, success, eRun>>
       ELSE IF PercentOver100(capacity)
       THEN /\ eError' = "Files are too large for this image!"
            /\ UNCHANGED <<eLoading, success, eRun>>
       ELSE /\ issued < MaxEmbeds
            /\ eError' = ""
            /\ eLoading' = TRUE
            /\ success' = FALSE
            /\ eRun' = [pc |-> "encode", coverImage |-> coverImage,
                        secretFile |-> secretFile, decoyFile |-> decoyFile,
                        realPassword |-> realPassword,
                        duressPassword |-> duressPassword,
                        capacity |-> capacity]
    /\ UNCHANGED <<coverImage, secretFile, decoyFile, realPassword, duressPassword,
                   capacity, calcs>>
    /\ UNCHANGED <<extractVer, activeTab, storeVars, extractVars, vaultVars, codecVars>>

\* handleEmbed up to its first await  (Embed.tsx:61-80).  The button is
\* disabled while loading.  The call keeps the capacity its guard read.
EmbedClick ==
    /\ activeTab = "embed"
    /\ ~eLoading
    /\ eRun.pc = "idle"
    /\ IF coverImage = Null \/ secretFile = Null \/ decoyFile = Null
          \/ realPassword = "" \/ duressPassword = ""
       THEN /\ eError' = "Please fill in all fields"
            /\ UNCHANGED <<eLoading, success, eRun>>
       ELSE IF realPassword = duressPassword
       THEN /\ eError' = "Real and duress passwords must be different"
            /\ UNCHANGED <<eLoading, success, eRun>>
       ELSE IF PercentOver100(capacity)
       THEN /\ eError' = "Files are too large for this image!"
            /\ UNCHANGED <<eLoading, success, eRun>>
       ELSE /\ issued < MaxEmbeds
            /\ eError' = ""
            /\ eLoading' = TRUE
            /\ success' = FALSE
            /\ eRun' = [pc |-> "encode", coverImage |-> coverImage,
                        secretFile |-> secretFile, decoyFile |-> decoyFile,
                        realPassword |-> realPassword,
                        duressPassword |-> duressPassword,
                        capacity |-> capacity]
    /\ UNCHANGED <<coverImage, secretFile, decoyFile, realPassword, duressPassword,
                   capacity, calcs>>
    /\ UNCHANGED <<extractVer, activeTab, storeVars, extractVars, vaultVars, codecVars>>

\* handleEmbed without its finally block
MutEmbedThrowNoFinally(message) ==
    /\ eError' = message
    /\ eRun' = IdleEmbed
    /\ UNCHANGED <<coverImage, secretFile, decoyFile, realPassword, duressPassword,
                   eLoading, success, capacity, calcs>>

\* the catch and finally of handleEmbed  (Embed.tsx:116-120)
EmbedThrow(message) ==
    /\ eError' = message
    /\ eLoading' = FALSE
    /\ eRun' = IdleEmbed
    /\ UNCHANGED <<coverImage, secretFile, decoyFile, realPassword, duressPassword,
                   success, capacity, calcs>>

\* handleEmbed from reading the files to the stego blob  (Embed.tsx:80-92).
\* embedDataInImage is called with six arguments and declares five: the
\* image identifier is dropped at the call.
EmbedEncode ==
    /\ eRun.pc = "encode"
    /\ \E realDraw \in RandomDraws, duressDraw \in RandomDraws :
          LET secretData == eRun.secretFile.bytes
              decoyData == eRun.decoyFile.bytes
              imageId == [kind |-> "uuid", n |-> issued + 1]
              encReal == encryptData(secretData, eRun.realPassword,
                                     realDraw.salt, realDraw.iv)
              encDecoy == encryptData(decoyData, eRun.duressPassword,
                                      duressDraw.salt, duressDraw.iv)
              embedded == embedDataInImage(loadImage(eRun.coverImage),
                                           encReal.encrypted, encDecoy.encrypted,
                                           eRun.secretFile.name, eRun.decoyFile.name)
          IN /\ issued' = issued + 1
             /\ IF ~embedded.ok
                THEN EmbedThrow(embedded.error)
                ELSE /\ eRun' = [pc |-> "upload", coverImage |-> eRun.coverImage,
                                 secretFile |-> eRun.secretFile,
                                 decoyFile |-> eRun.decoyFile,
                                 realPassword |-> eRun.realPassword,
                                 duressPassword |-> eRun.duressPassword,
                                 imageId |-> imageId,
                                 encReal |-> encReal, encDecoy |-> encDecoy,
                                 stegoBlob |-> StegoFile(eRun.coverImage,
                                                  encReal.encrypted, encDecoy.encrypted,
                                                  eRun.secretFile.name,
                                                  eRun.decoyFile.name),
                                 storagePath |-> [kind |-> "path", n |-> issued + 1]]
                     /\ UNCHANGED <<coverImage, secretFile, decoyFile, realPassword,
                                    duressPassword, eLoading, eError, success,
                                    capacity, calcs>>
    /\ UNCHANGED <<extractVer, activeTab, rows, bucket, disk, produced, extractVars, vaultVars,
                   codecVars>>

\* supabase.storage.upload and its error check  (Embed.tsx:94-95)
EmbedUpload ==
    /\ eRun.pc = "upload"
    /\ \E uploadError \in BOOLEAN :
          IF uploadError
          THEN /\ EmbedThrow("upload error")
               /\ bucket' = bucket
          ELSE /\ bucket' = bucket \cup {[path |-> eRun.storagePath,
                                          blob |-> eRun.stegoBlob]}
               /\ eRun' = [eRun EXCEPT !.pc = "insert"]
               /\ UNCHANGED <<coverImage, secretFile, decoyFile, realPassword,
                              duressPassword, eLoading, eError, success, capacity,
                              calcs>>
    /\ UNCHANGED <<extractVer, activeTab, rows, disk, issued, produced, extractVars, vaultVars,
                   codecVars>>

\* the row insert and the success path  (Embed.tsx:97-115, 118-120)
EmbedInsert ==
    /\ eRun.pc = "insert"
    /\ \E dbError \in BOOLEAN :
          IF dbError
          THEN /\ EmbedThrow("insert error")
               /\ UNCHANGED <<rows, produced>>
          ELSE /\ rows' = rows \cup
                     {[id |-> eRun.imageId,
                       storage_path |-> eRun.storagePath,
                       real_salt |-> uint8ArrayToBase64(eRun.encReal.salt),
                       real_iv |-> uint8ArrayToBase64(eRun.encReal.iv),
                       duress_salt |-> uint8ArrayToBase64(eRun.encDecoy.salt),
                       duress_iv |-> uint8ArrayToBase64(eRun.encDecoy.iv)]}
               /\ produced' = produced \cup
                     {[imageId |-> eRun.imageId, blob |-> eRun.stegoBlob,
                       realPassword |-> eRun.realPassword,
                       duressPassword |-> eRun.duressPassword,
                       secretFile |-> eRun.secretFile,
                       decoyFile |-> eRun.decoyFile]}
               /\ success' = TRUE
               /\ coverImage' = Null /\ secretFile' = Null /\ decoyFile' = Null
               /\ realPassword' = "" /\ duressPassword' = ""
               /\ capacity' = ZeroCapacity
               /\ eLoading' = FALSE
               /\ eRun' = IdleEmbed
               /\ UNCHANGED <<eError, calcs>>
    /\ UNCHANGED <<extractVer, activeTab, bucket, disk, issued, extractVars, vaultVars, codecVars>>

(***************************************************************************)
(* Extract component, in the three versions of the repository:             *)
(*   src/src/components/Extract.tsx  (salts and IVs asked with prompt)     *)
(*   src/unnamed/part_003, src/unnamed/part_004  (salts and IVs fetched    *)
(*   from the stego_images table)                                          *)
(***************************************************************************)
ErrMissingInputs ==
    IF extractVer = "part_004" THEN "Missing inputs"
    ELSE "Please select an image and enter a password"

\* the error of the metadata gate  (part_003:36-38, part_004:28)
ErrMetadata ==
    IF extractVer = "part_004"
    THEN "Security metadata not found. File may be compromised or deleted."
    ELSE "Security check failed: This file has been burned or is invalid."

\* the error thrown when no attempt decrypted
\* (Extract.tsx:60-62, part_003:74-76, part_004:44)
ErrInvalidPassword ==
    IF extractVer = "Extract.tsx"
    THEN "Decryption failed: Invalid password or missing salt/IV"
    ELSE "Invalid password."

\* the message of the error decryptData rejects with
ErrDecrypt == "decryptData error"

\* the imageId that handleExtract destructures from the result of
\* extractDataFromImage (part_003:26, part_004:21): the object returned at
\* steganography.ts:168-177 has the properties realFile and decoyFile only
ImageIdOf(parsed) == Undefined

\* .from('stego_images').select(...).eq('id', id).single()
Lookup(id) ==
    LET hits == {r \in rows : r.id = id}
    IN IF hits = {} THEN Null ELSE CHOOSE r \in hits : TRUE

\* onChange of the image input: the user picks an image downloaded from the
\* vault
SetStegoImage ==
    /\ activeTab = "extract"
    /\ xStarted < MaxExtracts
    /\ ~xLoading
    /\ \E f \in disk :
          /\ f.kind = "stego"
          /\ f # stegoImage
          /\ stegoImage' = f
    /\ UNCHANGED <<password, xLoading, xError, extractedFile, xRun, xStarted>>
    /\ UNCHANGED <<extractVer, activeTab, storeVars, embedVars, vaultVars, codecVars>>

\* onChange of the image input: the user picks a picture that was never
\* embedded
SetOtherImage ==
    /\ activeTab = "extract"
    /\ xStarted < MaxExtracts
    /\ ~xLoading
    /\ \E f \in disk :
          /\ f.kind = "cover"
          /\ f # stegoImage
          /\ stegoImage' = f
    /\ UNCHANGED <<password, xLoading, xError, extractedFile, xRun, xStarted>>
    /\ UNCHANGED <<extractVer, activeTab, storeVars, embedVars, vaultVars, codecVars>>

SetPassword ==
    /\ activeTab = "extract"
    /\ xStarted < MaxExtracts
    /\ ~xLoading
    /\ stegoImage # Null
    /\ \E pw \in Passwords :
          /\ pw # password
          /\ password' = pw
    /\ UNCHANGED <<stegoImage, xLoading, xError, extractedFile, xRun, xStarted>>
    /\ UNCHANGED <<extractVer, activeTab, storeVars, embedVars, vaultVars, codecVars>>

\* onChange of the password input when the user empties the field
\* (Extract.tsx:117, part_003:129, part_004:80)
ClearPassword ==
    /\ activeTab = "extract"
    /\ ~xLoading
    /\ password # ""
    \* exploration bound: the field is emptied once a result is shown
    /\ extractedFile # Null
    /\ password' = ""
    /\ UNCHANGED <<stegoImage, xLoading, xError, extractedFile, xRun, xStarted>>
    /\ UNCHANGED <<extractVer, activeTab, storeVars, embedVars, vaultVars, codecVars>>

\* handleExtract up to its first await
\* (Extract.tsx:16-24, part_003:14-22, part_004:15-17)
ExtractClick ==
    /\ activeTab = "extract"
    /\ ~xLoading
    /\ xRun.pc = "idle"
    /\ IF stegoImage = Null \/ password = ""
       THEN /\ xError' = ErrMissingInputs
            /\ UNCHANGED <<xLoading, extractedFile, xRun, xStarted>>
       ELSE /\ xStarted < MaxExtracts
            /\ xStarted' = xStarted + 1
            /\ xError' = ""
            /\ xLoading' = TRUE
            /\ extractedFile' = Null
            /\ xRun' = [pc |-> "parse", finished |-> FALSE,
                        stegoImage |-> stegoImage, password |-> password,
                        rowsAtStart |-> rows, structural |-> xRun.structural]
    /\ UNCHANGED <<stegoImage, password>>
    /\ UNCHANGED <<extractVer, activeTab, storeVars, embedVars, vaultVars, codecVars>>

\* the metadata fetch a finished call made, kept for the properties
NoFetch == [made |-> FALSE]
FetchOf(id, dbError) == [made |-> TRUE, id |-> id, dbError |-> dbError]

\* the end of a handleExtract call: the outer catch or setExtractedFile, then
\* the finally.  The finished call is kept in xRun for the properties;
\* `structural` is the set of messages that the calls of this component
\* have shown so far for an image extractDataFromImage rejected.
ExtractEndWith(message, file, fetch, attempts, structural) ==
    /\ xError' = message
    /\ extractedFile' = file
    /\ xLoading' = FALSE
    /\ xRun' = [pc |-> "idle", finished |-> TRUE,
                stegoImage |-> xRun.stegoImage, password |-> xRun.password,
                rowsAtStart |-> xRun.rowsAtStart,
                fetch |-> fetch, attempts |-> attempts,
                error |-> message, file |-> file,
                structural |-> structural]
    /\ UNCHANGED <<stegoImage, password, xStarted>>

ExtractEnd(message, file, fetch, attempts) ==
    ExtractEndWith(message, file, fetch, attempts, xRun.structural)

\* await extractDataFromImage(stegoImage)
\* (Extract.tsx:27, part_003:26, part_004:21)
ExtractParse ==
    /\ xRun.pc = "parse"
    /\ \E parsed \in {extractDataFromImage(loadImage(xRun.stegoImage))} :
          IF ~parsed.ok
          THEN ExtractEndWith(parsed.error, Null, NoFetch, <<>>,
                              xRun.structural \cup {parsed.error})
          ELSE /\ xRun' = [pc |-> IF extractVer = "Extract.tsx" THEN "resolve"
                                  ELSE "fetch",
                           finished |-> FALSE,
                           stegoImage |-> xRun.stegoImage,
                           password |-> xRun.password,
                           rowsAtStart |-> xRun.rowsAtStart,
                           imageId |-> ImageIdOf(parsed),
                           realFile |-> parsed.realFile,
                           decoyFile |-> parsed.decoyFile,
                           metadata |-> Null, dbError |-> FALSE,
                           structural |-> xRun.structural]
               /\ UNCHANGED <<stegoImage, password, xLoading, xError,
                              extractedFile, xStarted>>
    /\ UNCHANGED <<extractVer, activeTab, storeVars, embedVars, vaultVars, codecVars>>

\* the metadata fetch without its gate: the call goes on to the decryption
\* attempts whatever the lookup returned
MutExtractFetchNoGate ==
    /\ xRun.pc = "fetch"
    /\ \E dbError \in BOOLEAN :
          LET metadata == IF dbError THEN Null ELSE Lookup(xRun.imageId)
          IN /\ xRun' = [xRun EXCEPT !.pc = "resolve", !.metadata = metadata,
                                     !.dbError = dbError]
             /\ UNCHANGED <<stegoImage, password, xLoading, xError,
                            extractedFile, xStarted>>
    /\ UNCHANGED <<extractVer, activeTab, storeVars, embedVars, vaultVars, codecVars>>

\* the metadata fetch and its gate  (part_003:30-38, part_004:24-28)
ExtractFetch ==
    /\ xRun.pc = "fetch"
    /\ \E dbError \in BOOLEAN :
          LET metadata == IF dbError THEN Null ELSE Lookup(xRun.imageId)
          IN IF dbError \/ metadata = Null
             THEN ExtractEnd(ErrMetadata, Null, FetchOf(xRun.imageId, dbError), <<>>)
             ELSE /\ xRun' = [xRun EXCEPT !.pc = "resolve", !.metadata = metadata]
                  /\ UNCHANGED <<stegoImage, password, xLoading, xError,
                                 extractedFile, xStarted>>
    /\ UNCHANGED <<extractVer, activeTab, storeVars, embedVars, vaultVars, codecVars>>

\* what the user can type into the prompts of Extract.tsx: nothing, or a
\* salt and IV pair the vault has shown
PromptAnswers ==
    {Null} \cup {[kind |-> "answer", salt |-> r.real_salt, iv |-> r.real_iv] : r \in noted}
           \cup {[kind |-> "answer", salt |-> r.duress_salt, iv |-> r.duress_iv] : r \in noted}

ExtractedFile(file, data, type) == [name |-> file.name, data |-> data, type |-> type]

AttemptOf(target, ok) == [target |-> target, ok |-> ok]

\* the resolution with prompted salts and IVs  (Extract.tsx:29-64).  The
\* decoy is tried in the catch of the real attempt, so an error of the decoy
\* attempt leaves the inner try and reaches the outer catch.
ResolvePrompted ==
    \E realInput \in PromptAnswers, duressInput \in PromptAnswers :
       IF realInput = Null
       THEN ExtractEnd(ErrInvalidPassword, Null, NoFetch, <<>>)
       ELSE LET first == decryptData(xRun.realFile.data, xRun.password,
                                     base64ToUint8Array(realInput.salt),
                                     base64ToUint8Array(realInput.iv))
            IN IF first.ok
               THEN ExtractEnd("", ExtractedFile(xRun.realFile, first.data, "none"),
                               NoFetch, <<AttemptOf("real", TRUE)>>)
               ELSE IF duressInput = Null
               THEN ExtractEnd(ErrInvalidPassword, Null, NoFetch,
                               <<AttemptOf("real", FALSE)>>)
               ELSE LET second == decryptData(xRun.decoyFile.data, xRun.password,
                                              base64ToUint8Array(duressInput.salt),
                                              base64ToUint8Array(duressInput.iv))
                    IN IF second.ok
                       THEN ExtractEnd("", ExtractedFile(xRun.decoyFile, second.data,
                                                         "none"),
                                       NoFetch, <<AttemptOf("real", FALSE),
                                                  AttemptOf("decoy", TRUE)>>)
                       ELSE ExtractEnd(ErrDecrypt, Null, NoFetch,
                                       <<AttemptOf("real", FALSE),
                                         AttemptOf("decoy", FALSE)>>)

\* the resolution with fetched metadata  (part_003:40-78, part_004:30-44).
\* Reading a salt of a null metadata throws inside the try blocks, which
\* swallow it like a failed decryption.
ResolveFetched ==
    LET metadata == xRun.metadata IN
    IF metadata = Null
    THEN ExtractEnd(ErrInvalidPassword, Null, FetchOf(xRun.imageId, xRun.dbError), <<>>)
    ELSE LET first == decryptData(xRun.realFile.data, xRun.password,
                                  base64ToUint8Array(metadata.real_salt),
                                  base64ToUint8Array(metadata.real_iv))
             second == decryptData(xRun.decoyFile.data, xRun.password,
                                   base64ToUint8Array(metadata.duress_salt),
                                   base64ToUint8Array(metadata.duress_iv))
         IN IF first.ok
            THEN ExtractEnd("", ExtractedFile(xRun.realFile, first.data, "real"),
                            FetchOf(xRun.imageId, xRun.dbError), <<AttemptOf("real", TRUE)>>)
            ELSE IF second.ok
            THEN ExtractEnd("", ExtractedFile(xRun.decoyFile, second.data, "decoy"),
                            FetchOf(xRun.imageId, xRun.dbError), <<AttemptOf("real", FALSE),
                                            AttemptOf("decoy", TRUE)>>)
            ELSE ExtractEnd(ErrInvalidPassword, Null, FetchOf(xRun.imageId, xRun.dbError),
                            <<AttemptOf("real", FALSE), AttemptOf("decoy", FALSE)>>)

ExtractResolve ==
    /\ xRun.pc = "resolve"
    /\ IF extractVer = "Extract.tsx" THEN ResolvePrompted ELSE ResolveFetched
    /\ UNCHANGED <<extractVer, activeTab, storeVars, embedVars, vaultVars, codecVars>>

(***************************************************************************)
(* Vault component  (src/src/components/Vault.tsx)                         *)
(***************************************************************************)
\* loadImages  (Vault.tsx:37-56); every row belongs to the one user modelled.
\* The cards show the salts and IVs of the rows loaded  (Vault.tsx:254).
VaultLoad ==
    /\ vLoading
    /\ vLoading' = FALSE
    /\ \E error \in BOOLEAN :
          IF error
          THEN UNCHANGED <<myImages, noted>>
          ELSE /\ myImages' = rows
               /\ noted' = noted \cup rows
    /\ UNCHANGED <<vTasks, vOps, vDone, shareVars>>
    /\ UNCHANGED <<extractVer, activeTab, storeVars, embedVars, extractVars, codecVars>>

\* handleDownload  (Vault.tsx:58-67): the browser saves the stored blob
VaultDownload ==
    /\ activeTab = "vault"
    /\ \E image \in myImages, object \in bucket :
          /\ object.path = image.storage_path
          /\ object.blob \notin disk
          /\ disk' = disk \cup {object.blob}
    /\ UNCHANGED <<rows, bucket, issued, produced>>
    /\ UNCHANGED <<extractVer, activeTab, embedVars, extractVars, vaultVars, codecVars>>

\* handleKillSwitch / handleDelete up to the first await, confirm answered yes
\* (Vault.tsx:70-76, 101-104).  The call keeps the myImages of its render.
VaultClick ==
    /\ activeTab = "vault"
    /\ ~vLoading
    /\ shareModalOpen = Null
    /\ vOps < MaxVaultOps * Cardinality(noted)
    /\ \E image \in myImages, kind \in {"kill", "delete"} :
          vTasks' = vTasks \cup {[kind |-> kind, image |-> image, myImages |-> myImages,
                                  pc |-> IF kind = "kill" THEN "row" ELSE "storage"]}
    /\ vOps' = vOps + 1
    /\ UNCHANGED <<myImages, vDone, vLoading, noted, shareVars>>
    /\ UNCHANGED <<extractVer, activeTab, storeVars, embedVars, extractVars, codecVars>>

\* the record of an operation that ended, with its setMyImages call (ok) or
\* in its catch, and the images whose operations were in flight at that moment
Ended(t, ok) ==
    [id |-> t.image.id, kind |-> t.kind, ok |-> ok,
     with |-> {u.image.id : u \in vTasks \ {t}}]

\* the row delete of handleKillSwitch (Vault.tsx:78-83) and of handleDelete
\* (Vault.tsx:116-124)
VaultDeleteRow ==
    /\ \E t \in vTasks, dbError \in BOOLEAN :
          /\ t.pc = "row"
          /\ IF dbError
             THEN /\ vTasks' = vTasks \ {t}
                  /\ vDone' = vDone \cup {Ended(t, FALSE)}
                  /\ UNCHANGED <<rows, allowed_emails, myImages>>
             ELSE /\ rows' = {r \in rows : r.id # t.image.id}
                  /\ allowed_emails' = {a \in allowed_emails : a.id # t.image.id}
                  /\ IF t.kind = "kill"
                     THEN /\ vTasks' = (vTasks \ {t}) \cup {[t EXCEPT !.pc = "storage"]}
                          /\ UNCHANGED <<myImages, vDone>>
                     ELSE /\ vTasks' = vTasks \ {t}
                          /\ myImages' = {img \in t.myImages : img.id # t.image.id}
                          /\ vDone' = vDone \cup {Ended(t, TRUE)}
    /\ UNCHANGED <<bucket, disk, issued, produced, vOps, vLoading, noted>>
    /\ UNCHANGED <<shareModalOpen, emailInput, allowedEmails, shareTasks, shareOps, shareLog>>
    /\ UNCHANGED <<extractVer, activeTab, embedVars, extractVars, codecVars>>

\* handleDelete if a storage error threw: the call ends in its catch
MutRemoveStorageThrows ==
    /\ \E t \in vTasks, storageError \in BOOLEAN :
          /\ t.pc = "storage"
          /\ bucket' = IF storageError THEN bucket
                       ELSE {o \in bucket : o.path # t.image.storage_path}
          /\ IF t.kind = "kill"
             THEN /\ vTasks' = vTasks \ {t}
                  /\ myImages' = {img \in t.myImages : img.id # t.image.id}
                  /\ vDone' = vDone \cup {Ended(t, TRUE)}
             ELSE /\ vTasks' = IF storageError THEN vTasks \ {t}
                               ELSE (vTasks \ {t}) \cup {[t EXCEPT !.pc = "row"]}
                  /\ vDone' = IF storageError THEN vDone \cup {Ended(t, FALSE)} ELSE vDone
                  /\ UNCHANGED myImages
    /\ UNCHANGED <<rows, disk, issued, produced, vOps, vLoading, noted, shareVars>>
    /\ UNCHANGED <<extractVer, activeTab, embedVars, extractVars, codecVars>>

\* the storage remove of handleKillSwitch (Vault.tsx:86-92), whose result is
\* not read, and of handleDelete (Vault.tsx:106-113), whose error is logged
VaultRemoveStorage ==
    /\ \E t \in vTasks, storageError \in BOOLEAN :
          /\ t.pc = "storage"
          /\ bucket' = IF storageError THEN bucket
                       ELSE {o \in bucket : o.path # t.image.storage_path}
          /\ IF t.kind = "kill"
             THEN /\ vTasks' = vTasks \ {t}
                  /\ myImages' = {img \in t.myImages : img.id # t.image.id}
                  /\ vDone' = vDone \cup {Ended(t, TRUE)}
             ELSE /\ vTasks' = (vTasks \ {t}) \cup {[t EXCEPT !.pc = "row"]}
                  /\ UNCHANGED <<myImages, vDone>>
    /\ UNCHANGED <<rows, disk, issued, produced, vOps, vLoading, noted, shareVars>>
    /\ UNCHANGED <<extractVer, activeTab, embedVars, extractVars, codecVars>>

(***************************************************************************)
(* Share modal of the Vault component  (Vault.tsx:132-150, 271-296).  The  *)
(* modal covers the cards while it is open, so another image's modal is    *)
(* opened after this one was closed.                                       *)
(***************************************************************************)
\* the address the user types into the modal's input
TypedEmails == {"eve"}

\* openShareModal up to its await  (Vault.tsx:133-135)
OpenShareModal ==
    /\ activeTab = "vault"
    /\ ~vLoading
    /\ shareModalOpen = Null
    /\ shareOps < MaxShareOps
    /\ \E image \in myImages :
          /\ shareModalOpen' = image.id
          /\ shareTasks' = shareTasks \cup {[kind |-> "fetch", id |-> image.id, n |-> shareOps]}
    /\ shareOps' = shareOps + 1
    /\ UNCHANGED <<allowed_emails, emailInput, allowedEmails, shareLog>>
    /\ UNCHANGED <<myImages, vTasks, vOps, vDone, vLoading, noted>>
    /\ UNCHANGED <<extractVer, activeTab, storeVars, embedVars, extractVars, codecVars>>

\* the select of openShareModal answers: setAllowedEmails(data?.allowed_emails
\* || [])  (Vault.tsx:135-136).  data is null on an error and when the row is
\* gone; the column is null until a list was written.
ShareFetchDone ==
    /\ \E t \in shareTasks, error \in BOOLEAN :
          /\ t.kind = "fetch"
          /\ shareTasks' = shareTasks \ {t}
          /\ LET hits == {a \in allowed_emails : a.id = t.id}
                 data == IF error \/ hits = {} THEN <<>>
                         ELSE (CHOOSE a \in hits : TRUE).emails
             IN allowedEmails' = [emails |-> data, from |-> t.id]
    /\ UNCHANGED <<allowed_emails, shareModalOpen, emailInput, shareOps, shareLog>>
    /\ UNCHANGED <<myImages, vTasks, vOps, vDone, vLoading, noted>>
    /\ UNCHANGED <<extractVer, activeTab, storeVars, embedVars, extractVars, codecVars>>

\* the X button of the modal  (Vault.tsx:276)
CloseShareModal ==
    /\ shareModalOpen # Null
    /\ shareModalOpen' = Null
    /\ UNCHANGED <<allowed_emails, emailInput, allowedEmails, shareTasks, shareOps, shareLog>>
    /\ UNCHANGED <<myImages, vTasks, vOps, vDone, vLoading, noted>>
    /\ UNCHANGED <<extractVer, activeTab, storeVars, embedVars, extractVars, codecVars>>

\* typing into the modal's input  (Vault.tsx:281)
SetEmailInput ==
    /\ shareModalOpen # Null
    /\ emailInput = ""
    /\ shareOps < MaxShareOps
    /\ \E email \in TypedEmails : emailInput' = email
    /\ UNCHANGED <<allowed_emails, shareModalOpen, allowedEmails, shareTasks, shareOps, shareLog>>
    /\ UNCHANGED <<myImages, vTasks, vOps, vDone, vLoading, noted>>
    /\ UNCHANGED <<extractVer, activeTab, storeVars, embedVars, extractVars, codecVars>>

\* the update request of addEmail and removeEmail  (Vault.tsx:143, 149)
SendUpdate(newEmails) ==
    LET update == [id |-> shareModalOpen, emails |-> newEmails.emails,
                   from |-> newEmails.from]
    IN /\ allowedEmails' = newEmails
       /\ shareTasks' = shareTasks \cup {[kind |-> "update", n |-> shareOps,
                                          update |-> update]}
       /\ shareLog' = shareLog \cup {update}
       /\ shareOps' = shareOps + 1

\* addEmail up to its await  (Vault.tsx:139-143); with an empty input it returns
AddEmail ==
    /\ shareModalOpen # Null
    /\ emailInput # ""
    /\ shareOps < MaxShareOps
    /\ SendUpdate([allowedEmails EXCEPT !.emails = Append(@, emailInput)])
    /\ emailInput' = ""
    /\ UNCHANGED <<allowed_emails, shareModalOpen>>
    /\ UNCHANGED <<myImages, vTasks, vOps, vDone, vLoading, noted>>
    /\ UNCHANGED <<extractVer, activeTab, storeVars, embedVars, extractVars, codecVars>>

\* removeEmail up to its await  (Vault.tsx:146-149)
RemoveEmail ==
    /\ shareModalOpen # Null
    /\ shareOps < MaxShareOps
    /\ \E k \in DOMAIN allowedEmails.emails :
          SendUpdate([allowedEmails EXCEPT
                        !.emails = SelectSeq(@, LAMBDA e : e # allowedEmails.emails[k])])
    /\ UNCHANGED <<allowed_emails, shareModalOpen, emailInput>>
    /\ UNCHANGED <<myImages, vTasks, vOps, vDone, vLoading, noted>>
    /\ UNCHANGED <<extractVer, activeTab, storeVars, embedVars, extractVars, codecVars>>

\* the table applies an update of allowed_emails to the row with that id, if
\* the row is still there; the handlers do not read the answer
ShareUpdateDone ==
    /\ \E t \in shareTasks :
          /\ t.kind = "update"
          /\ shareTasks' = shareTasks \ {t}
          /\ allowed_emails' =
                IF \E r \in rows : r.id = t.update.id
                THEN {a \in allowed_emails : a.id # t.update.id}
                     \cup {[id |-> t.update.id, emails |-> t.update.emails]}
                ELSE allowed_emails
    /\ UNCHANGED <<shareModalOpen, emailInput, allowedEmails, shareOps, shareLog>>
    /\ UNCHANGED <<myImages, vTasks, vOps, vDone, vLoading, noted>>
    /\ UNCHANGED <<extractVer, activeTab, storeVars, embedVars, extractVars, codecVars>>

(***************************************************************************)
(* Dashboard  (src/src/components/Embed.tsx:534-619): one tab is rendered  *)
(* at a time, so choosing a tab unmounts the component shown and mounts    *)
(* the chosen one with its initial useState values.  A handleExtract or    *)
(* calculateCapacity call of the unmounted component only has setState     *)
(* calls left, which do nothing.  The user leaves the Embed and Vault tabs *)
(* when none of their handlers is in flight.                               *)
(***************************************************************************)
Tabs == {"embed", "extract", "vault"}

SetActiveTab ==
    /\ eRun.pc = "idle"
    /\ vTasks = {} /\ shareTasks = {}
    /\ \E id \in Tabs :
          /\ id # activeTab
          /\ activeTab' = id
          /\ vLoading' = (id = "vault")
    \* Embed.tsx:9-21, and the effect of Embed.tsx:23-25 on mount
    /\ coverImage' = Null /\ secretFile' = Null /\ decoyFile' = Null
    /\ realPassword' = "" /\ duressPassword' = ""
    /\ eLoading' = FALSE /\ eError' = "" /\ success' = FALSE
    /\ capacity' = ZeroCapacity /\ calcs' = {}
    \* part_003:8-12
    /\ stegoImage' = Null /\ password' = ""
    /\ xLoading' = FALSE /\ xError' = "" /\ extractedFile' = Null
    /\ xRun' = IdleExtract
    \* Vault.tsx:25-35
    /\ myImages' = {} /\ vDone' = {}
    /\ shareModalOpen' = Null /\ emailInput' = "" /\ allowedEmails' = NoEmails
    /\ UNCHANGED <<extractVer, storeVars, eRun, xStarted, vTasks, vOps, noted, codecVars>>
    /\ UNCHANGED <<allowed_emails, shareTasks, shareOps, shareLog>>

Next ==
    \/ SetActiveTab
    \/ SetCoverImage \/ SetSecretFile \/ SetDecoyFile
    \/ SetRealPassword \/ SetDuressPassword \/ CalcDone
    \/ EmbedClick \/ EmbedEncode \/ EmbedUpload \/ EmbedInsert
    \/ SetStegoImage \/ SetPassword \/ ClearPassword
    \/ ExtractClick \/ ExtractParse \/ ExtractFetch \/ ExtractResolve
    \/ VaultLoad \/ VaultDownload
    \/ VaultClick \/ VaultDeleteRow \/ VaultRemoveStorage

Spec == Init /\ [][Next]_vars

(***************************************************************************)
(* The vault of a user who embedded two images before: the Vault tab has   *)
(* just been mounted and loadImages is in flight.                          *)
(***************************************************************************)
\* what one successful handleEmbed of the form's files left behind: the
\* stored object, the metadata row and the record of the run
\* (Embed.tsx:80-112)
StoredImage(n, cover, realDraw, duressDraw) ==
    LET encReal == encryptData(SecretFile.bytes, "alpha", realDraw.salt, realDraw.iv)
        encDecoy == encryptData(DecoyFile.bytes, "bravo", duressDraw.salt, duressDraw.iv)
        imageId == [kind |-> "uuid", n |-> n]
        storagePath == [kind |-> "path", n |-> n]
        stegoBlob == StegoFile(cover, encReal.encrypted, encDecoy.encrypted,
                               SecretFile.name, DecoyFile.name)
    IN [object |-> [path |-> storagePath, blob |-> stegoBlob],
        row |-> [id |-> imageId,
                 storage_path |-> storagePath,
                 real_salt |-> uint8ArrayToBase64(encReal.salt),
                 real_iv |-> uint8ArrayToBase64(encReal.iv),
                 duress_salt |-> uint8ArrayToBase64(encDecoy.salt),
                 duress_iv |-> uint8ArrayToBase64(encDecoy.iv)],
        embed |-> [imageId |-> imageId, blob |-> stegoBlob,
                   realPassword |-> "alpha", duressPassword |-> "bravo",
                   secretFile |-> SecretFile, decoyFile |-> DecoyFile]]

FirstImage ==
    StoredImage(1, BigCover, [salt |-> <<5>>, iv |-> <<3>>], [salt |-> <<9>>, iv |-> <<4>>])
SecondImage ==
    StoredImage(2, BigCover, [salt |-> <<9>>, iv |-> <<4>>], [salt |-> <<5>>, iv |-> <<3>>])
\* an embed into the 5x8 cover, which handleEmbed completes when it reads a
\* capacity that is not the one of the selection
TinyImage ==
    StoredImage(2, TinyCover, [salt |-> <<9>>, iv |-> <<4>>], [salt |-> <<5>>, iv |-> <<3>>])

(***************************************************************************)
(* The Embed and Extract components on their own, with fairness: the Embed *)
(* tab of a new user, or the Extract tab of a user who embedded two images *)
(* before and downloaded them from the vault.                              *)
(***************************************************************************)
EmbedStart == Init /\ extractVer = "Extract.tsx"

ExtractStart ==
    /\ extractVer \in ExtractVersions
    /\ activeTab = "extract"
    /\ rows = {FirstImage.row, TinyImage.row}
    /\ bucket = {FirstImage.object, TinyImage.object}
    /\ disk = {BigCover, TinyCover, FirstImage.object.blob, TinyImage.object.blob}
    /\ issued = 2
    /\ produced = {FirstImage.embed, TinyImage.embed}
    /\ coverImage = Null /\ secretFile = Null /\ decoyFile = Null
    /\ realPassword = "" /\ duressPassword = ""
    /\ eLoading = FALSE /\ eError = "" /\ success = FALSE
    /\ capacity = ZeroCapacity /\ calcs = {} /\ eRun = IdleEmbed
    /\ stegoImage = Null /\ password = ""
    /\ xLoading = FALSE /\ xError = "" /\ extractedFile = Null
    /\ xRun = IdleExtract /\ xStarted = 0
    /\ myImages = {} /\ vTasks = {} /\ vOps = 0 /\ vDone = {} /\ vLoading = FALSE
    /\ noted = {FirstImage.row, TinyImage.row}
    /\ allowed_emails = {} /\ ShareInit
    /\ cIn = Null /\ cPhase = "unused" /\ cEmbed = NoEmbed /\ cExtract = NoExtract

LiveNext ==
    \/ SetCoverImage \/ SetSecretFile \/ SetDecoyFile
    \/ SetRealPassword \/ SetDuressPassword \/ CalcDone
    \/ EmbedClick \/ EmbedEncode \/ EmbedUpload \/ EmbedInsert
    \/ SetStegoImage \/ SetOtherImage \/ SetPassword \/ ClearPassword
    \/ ExtractClick \/ ExtractParse \/ ExtractFetch \/ ExtractResolve

\* every awaited call of handleEmbed and handleExtract eventually settles:
\* the file reads, the image decoding, the storage upload, the table insert
\* and select, and the prompts
\* EmbedEncode and ExtractParse are enabled exactly when their call is at
\* "encode" and at "parse"; their weak fairness is written with that test in
\* the place of ENABLED.
AwaitsSettle ==
    /\ <>[](eRun.pc = "encode") => []<><<EmbedEncode>>_vars
    /\ WF_vars(EmbedUpload) /\ WF_vars(EmbedInsert)
    /\ <>[](xRun.pc = "parse") => []<><<ExtractParse>>_vars
    /\ WF_vars(ExtractFetch) /\ WF_vars(ExtractResolve)

SpecLive == (EmbedStart \/ ExtractStart) /\ [][LiveNext]_vars /\ AwaitsSettle

VaultStart ==
    /\ extractVer = "Extract.tsx"
    /\ activeTab = "vault"
    /\ rows = {FirstImage.row, SecondImage.row}
    /\ bucket = {FirstImage.object, SecondImage.object}
    /\ disk = {BigCover, TinyCover} /\ issued = 2
    /\ produced = {FirstImage.embed, SecondImage.embed}
    /\ coverImage = Null /\ secretFile = Null /\ decoyFile = Null
    /\ realPassword = "" /\ duressPassword = ""
    /\ eLoading = FALSE /\ eError = "" /\ success = FALSE
    /\ capacity = ZeroCapacity /\ calcs = {} /\ eRun = IdleEmbed
    /\ stegoImage = Null /\ password = ""
    /\ xLoading = FALSE /\ xError = "" /\ extractedFile = Null
    /\ xRun = IdleExtract /\ xStarted = 0
    /\ myImages = {} /\ vTasks = {} /\ vOps = 0 /\ vDone = {} /\ vLoading = TRUE /\ noted = {}
    /\ allowed_emails = {[id |-> FirstImage.row.id, emails |-> <<"ann">>],
                         [id |-> SecondImage.row.id, emails |-> <<"bob">>]}
    /\ ShareInit
    /\ cIn = Null /\ cPhase = "unused" /\ cEmbed = NoEmbed /\ cExtract = NoExtract

\* the user downloads, kills and deletes
VaultNext ==
    \/ VaultLoad \/ VaultDownload
    \/ VaultClick \/ VaultDeleteRow \/ VaultRemoveStorage

SpecVault == VaultStart /\ [][VaultNext]_vars

\* the user manages the access lists
ShareNext ==
    \/ VaultLoad
    \/ OpenShareModal \/ ShareFetchDone \/ CloseShareModal
    \/ SetEmailInput \/ AddEmail \/ RemoveEmail \/ ShareUpdateDone

SpecShare == VaultStart /\ [][ShareNext]_vars

\* the codec on its own: the workflow stays in its initial state
CodecStart == CodecInit /\ WorkflowInit /\ extractVer = "Extract.tsx"

SpecCodec == CodecStart /\ [][CodecNext]_vars

(***************************************************************************)
(* Properties of the workflow, checked under Spec.                         *)
(***************************************************************************)
\* the stored rows' identifiers
RowIds(rs) == {r.id : r \in rs}

\* a handleExtract call of the fetching versions has finished on the image
\* that the successful embed e produced, with password pw, while the row of e
\* was in the table and the fetch met no database error
FetchedRunOn(e, pw) ==
    /\ extractVer \in {"part_003", "part_004"}
    /\ xRun.finished
    /\ xRun.stegoImage = e.blob
    /\ xRun.password = pw
    /\ e.imageId \in RowIds(xRun.rowsAtStart)
    /\ e.imageId \in RowIds(rows)
    /\ xRun.fetch.made /\ ~xRun.fetch.dbError

\* C5: after handleEmbed completed successfully with pwReal and pwDecoy,
\* handleExtract on the produced image with pwReal ends with role real and the
\* original real bytes, and with pwDecoy ends with role decoy and the original
\* decoy bytes.
C5_EndToEndResolution ==
    \A e \in produced :
       /\ FetchedRunOn(e, e.realPassword) =>
             /\ xRun.file # Null
             /\ xRun.file.type = "real"
             /\ xRun.file.data = e.secretFile.bytes
       /\ FetchedRunOn(e, e.duressPassword) =>
             /\ xRun.file # Null
             /\ xRun.file.type = "decoy"
             /\ xRun.file.data = e.decoyFile.bytes

\* C6: the identifier handleEmbed generated is read back from the produced
\* image: a handleExtract call on that image looks the metadata row up with
\* the identifier under which handleEmbed inserted it.
C6_IdentifierEmbedded ==
    \A e \in produced :
       (xRun.pc \in {"fetch", "resolve"} /\ xRun.stegoImage = e.blob
        /\ extractVer \in {"part_003", "part_004"})
          => xRun.imageId = e.imageId

\* C7: handleExtract attempts the real ciphertext with the real salt and IV
\* first, and on success reports the real name with role real without an
\* attempt on the decoy; only after the real attempt failed does it attempt the
\* decoy ciphertext, and on success reports the decoy name with role decoy.
C7_ResolutionOrder ==
    \A e \in produced, pw \in Passwords :
       FetchedRunOn(e, pw) =>
          /\ Len(xRun.attempts) \in {1, 2}
          /\ xRun.attempts[1].target = "real"
          /\ xRun.attempts[1].ok =>
                /\ Len(xRun.attempts) = 1
                /\ xRun.file # Null
                /\ xRun.file.name = e.secretFile.name /\ xRun.file.type = "real"
          /\ ~xRun.attempts[1].ok =>
                /\ Len(xRun.attempts) = 2
                /\ xRun.attempts[2].target = "decoy"
                /\ xRun.attempts[2].ok =>
                      /\ xRun.file # Null
                      /\ xRun.file.name = e.decoyFile.name
                      /\ xRun.file.type = "decoy"

\* C8: whenever both decryption attempts of a handleExtract call failed, the
\* call ends with the one InvalidPassword error of its component; the error of
\* an individual decryption attempt is never what the user is shown.
C8_UndifferentiatedFailure ==
    (/\ xRun.finished
     /\ Len(xRun.attempts) = 2
     /\ ~xRun.attempts[1].ok /\ ~xRun.attempts[2].ok)
       => (xRun.error = ErrInvalidPassword /\ xError = ErrInvalidPassword)

\* C9: for a container created with pwReal and pwDecoy, handleExtract with a
\* password outside {pwReal, pwDecoy} ends in InvalidPassword and sets no
\* extracted file.
C9_PasswordExclusivity ==
    \A e \in produced :
       \A pw \in Passwords \ {e.realPassword, e.duressPassword} :
          FetchedRunOn(e, pw) =>
             /\ xRun.error = ErrInvalidPassword
             /\ xRun.file = Null
             /\ extractedFile = Null

\* a handleExtract call of the fetching versions has finished on a copy of
\* the image of e, and had started when the row of e was no longer in the table
RevokedRunOn(e) ==
    /\ extractVer \in {"part_003", "part_004"}
    /\ xRun.finished
    /\ xRun.stegoImage = e.blob
    /\ xRun.stegoImage \in disk
    /\ e.imageId \notin RowIds(xRun.rowsAtStart)

\* C10: once handleKillSwitch or handleDelete has deleted the metadata row of
\* a container, every handleExtract that starts afterwards on a downloaded
\* copy of the image ends in the metadata error, whatever the password, with
\* no decryption attempted and no file extracted.
C10_Revocation ==
    \A e \in produced :
       RevokedRunOn(e) =>
          /\ xRun.error = ErrMetadata /\ xError = ErrMetadata
          /\ xRun.attempts = <<>>
          /\ xRun.file = Null /\ extractedFile = Null

\* What does hold after a revocation: the call ends in some error, with no
\* decryption attempted and no file extracted.
RevokedRunUndecryptable ==
    \A e \in produced :
       RevokedRunOn(e) =>
          /\ xRun.error # "" /\ xError = xRun.error
          /\ xRun.attempts = <<>>
          /\ xRun.file = Null /\ extractedFile = Null

(***************************************************************************)
(* Claims C11..C20                                                         *)
(***************************************************************************)
\* a finished handleExtract call whose metadata lookup returned an error or
\* no record
LookupFailedRun ==
    /\ extractVer \in {"part_003", "part_004"}
    /\ xRun.finished
    /\ xRun.fetch.made
    /\ (xRun.fetch.dbError \/ xRun.fetch.id \notin RowIds(xRun.rowsAtStart))

C12_NonContainerRejection ==
    cPhase = "coverExtracted" =>
       /\ ~cExtract.ok
       /\ cExtract.error \in {ErrRealName, ErrDecoyName, ErrEnd}

\* What does hold: pictures whose low bits are all 0 or all 1 are rejected
\* at the first length field.
C12_UniformCoversRejected ==
    (cPhase = "coverExtracted" /\ cIn.cover \in {Image(d[1], d[2], pat) :
          d \in {<<2, 3>>, <<5, 8>>}, pat \in {"black", "white"}})
       => (~cExtract.ok /\ cExtract.error = ErrRealName)

\* the name-length fields of the container an embedDataInImage call built,
\* read back at the offsets the layout gives them
RealNameField(e, in) == bytesToInt(SubSeq(e.data, 1, 2))
DecoyNameField(e, in) ==
    LET at == 2 + Len(TextEncode(in.realName)) + 4
    IN bytesToInt(SubSeq(e.data, at + 1, at + 2))

\* C13: every container written by embedDataInImage has a real-name length
\* field and a decoy-name length field that lie in 1..2000 and equal the
\* UTF-8 byte length of the respective name, so that no image produced by
\* embedDataInImage is rejected by extractDataFromImage for an invalid name
\* length.
C13_NameLengthInvariant ==
    /\ (cPhase \in {"embedded", "extracted"} /\ cEmbed.ok) =>
          /\ RealNameField(cEmbed, cIn) \in 1..MaxNameLength
          /\ DecoyNameField(cEmbed, cIn) \in 1..MaxNameLength
          /\ RealNameField(cEmbed, cIn) = Len(TextEncode(cIn.realName))
          /\ DecoyNameField(cEmbed, cIn) = Len(TextEncode(cIn.decoyName))
    /\ cPhase = "extracted" => cExtract.error \notin {ErrRealName, ErrDecoyName}

\* What does hold: the fields equal the UTF-8 byte lengths of the names, and
\* an image made from two non-empty names is not rejected for a name length.
C13_FieldsEqualByteLengths ==
    /\ (cPhase \in {"embedded", "extracted"} /\ cEmbed.ok) =>
          /\ RealNameField(cEmbed, cIn) = Len(TextEncode(cIn.realName))
          /\ DecoyNameField(cEmbed, cIn) = Len(TextEncode(cIn.decoyName))
    /\ (cPhase = "extracted" /\ cIn.realName # <<>> /\ cIn.decoyName # <<>>)
          => cExtract.error \notin {ErrRealName, ErrDecoyName}

\* the 16 bits at stream position `at` of a pixel buffer, most significant
\* first, as a number
RECURSIVE FieldBits(_, _, _)
FieldBits(pixels, at, n) ==
    IF n = 0 THEN 0
    ELSE 2 * FieldBits(pixels, at, n - 1) + PlacedBit(pixels, at + n - 1)

\* the pixel buffer the last extractDataFromImage call read, and its bits
ExtractedPixels ==
    IF cPhase = "coverExtracted" THEN CanvasStore(cIn.cover.data)
    ELSE CanvasStore(cEmbed.blob.data)
StreamBits(pixels) == 3 * (Len(pixels) \div 4)

\* where the decoy-name length field lies when the real-name field is n
DecoyFieldAt(n) == 16 + 8 * n + 32

\* C14: extractDataFromImage rejects with an invalid-name-length error every
\* stream whose real-name length field, or whose decoy-name length field, is
\* 0 or greater than 2000, and the reader has then consumed nothing beyond
\* that field: 16 bits for the real-name field, and the real name, the real
\* ciphertext length and 16 more bits for the decoy-name field.
C14_HeaderValidation ==
    (cPhase \in {"extracted", "coverExtracted"} /\ StreamBits(ExtractedPixels) >= 16) =>
       LET pixels == ExtractedPixels
           realLen == FieldBits(pixels, 0, 16)
           at == DecoyFieldAt(realLen)
       IN /\ realLen \notin 1..MaxNameLength =>
                /\ ~cExtract.ok /\ cExtract.error = ErrRealName
                /\ cExtract.read = 16
          /\ (realLen \in 1..MaxNameLength /\ at + 16 <= StreamBits(pixels)
                /\ FieldBits(pixels, at, 16) \notin 1..MaxNameLength) =>
                /\ ~cExtract.ok /\ cExtract.error = ErrDecoyName
                /\ cExtract.read = at + 16

\* an image whose real-name field is valid and whose decoy-name field is 0
\* has been rejected
C14_Witness ==
    /\ cPhase = "extracted"
    /\ FieldBits(ExtractedPixels, 0, 16) \in 1..MaxNameLength
    /\ DecoyFieldAt(FieldBits(ExtractedPixels, 0, 16)) + 16 <= StreamBits(ExtractedPixels)
    /\ FieldBits(ExtractedPixels, DecoyFieldAt(FieldBits(ExtractedPixels, 0, 16)), 16) = 0
    /\ cExtract.error = ErrDecoyName

\* C15: the bit reader of extractBytes fails with the unexpected-end-of-data
\* error exactly when a bit it has to read lies at position >= 3 * width *
\* height; it fails at the first such position, having read every bit
\* before it, and it never reads an alpha channel or an index outside the
\* pixel buffer.
C15_TruncationDetection ==
    cPhase = "read" =>
       LET bits == 3 * cIn.cover.width * cIn.cover.height
           r == cExtract
       IN /\ ~r.ok <=> (r.count > 0 /\ r.start + 8 * r.count > bits)
          /\ ~r.ok => r.pos = (IF r.start > bits THEN r.start ELSE bits)
          /\ r.ok => (r.pos = r.start + 8 * r.count /\ Len(r.bytes) = r.count)
          /\ ~r.stray

\* a read that began inside the buffer has failed at its end
C15_Witness ==
    /\ cPhase = "read"
    /\ ~cExtract.ok
    /\ cExtract.start < cExtract.pos
    /\ cExtract.pos = 3 * cIn.cover.width * cIn.cover.height

\* the embedDataInImage call of the state wrote a container
Embedded == cPhase \in {"embedded", "extracted"} /\ cEmbed.ok

\* C16: after embedDataInImage has written a container, the alpha value of
\* every pixel of the buffer is 255, whatever the alpha values of the cover
\* were; the payload loop, which starts from alpha 255 everywhere, writes no
\* alpha channel.
C16_AlphaInvariance ==
    Embedded =>
       /\ Len(cEmbed.pixels) = Len(cIn.cover.data)
       /\ \A p \in 1..(Len(cEmbed.pixels) \div 4) :
             /\ ForceOpaque(cEmbed.decoded)[4 * p] = 255
             /\ cEmbed.pixels[4 * p] = 255

\* a container has been written over a cover with transparent and half
\* transparent pixels
C16_Witness ==
    /\ Embedded
    /\ \E p \in 1..(Len(cIn.cover.data) \div 4) : cIn.cover.data[4 * p] = 0
    /\ \E p \in 1..(Len(cIn.cover.data) \div 4) : cIn.cover.data[4 * p] = 128

\* the buffer index (from 1) of the colour channel that holds stream bit k
ChannelOf(k) == 4 * (k \div 3) + (k % 3) + 1

\* the buffer embedDataInImage had before its payload loop
BeforeWrite == ForceOpaque(cEmbed.decoded)

\* C17: every colour channel that receives a payload bit keeps its upper
\* seven bits and gets the bit as its least-significant bit
\* (new = (old & 0xFE) | bit), and every colour channel after the one that
\* holds the last bit of the stream keeps its value.
C17_LsbOnlyWrite ==
    Embedded =>
       \A k \in 0..(3 * (Len(cEmbed.pixels) \div 4) - 1) :
          LET old == BeforeWrite[ChannelOf(k)]
              new == cEmbed.pixels[ChannelOf(k)]
          IN IF k < 8 * Len(cEmbed.data)
             THEN /\ new \div 2 = old \div 2
                  /\ new = 2 * (old \div 2) + StreamBit(cEmbed.data, k)
             ELSE new = old

\* a container has been written that changed a channel whose upper bits are
\* not all zero, and that ends before a channel whose upper bits are not all
\* zero
C17_Witness ==
    /\ Embedded
    /\ 8 * Len(cEmbed.data) < 3 * (Len(cEmbed.pixels) \div 4)
    /\ \E k \in 0..(8 * Len(cEmbed.data) - 1) :
          BeforeWrite[ChannelOf(k)] > 1 /\ cEmbed.pixels[ChannelOf(k)] # BeforeWrite[ChannelOf(k)]
    /\ BeforeWrite[ChannelOf(8 * Len(cEmbed.data))] > 1

\* bit k of a byte sequence, bits numbered most-significant first within
\* each byte, bytes in order
MsbFirstBit(bytes, k) == (bytes[(k \div 8) + 1] \div Pow2(7 - (k % 8))) % 2

\* the number of whole bytes of the container that the buffer holds
WholeBytesPlaced == Min(Len(cEmbed.data), (3 * (Len(cEmbed.pixels) \div 4)) \div 8)

\* C18: the writer places bit k of the stream (most-significant bit of each
\* byte first, bytes in order) in channel k mod 3 of pixel floor(k / 3); the
\* reader takes bit k from the same pixel and channel and shifts it in
\* most-significant first; so the reader, given the written buffer, returns
\* the bytes of the stream.
C18_BitPlacement ==
    /\ Embedded =>
          /\ \A k \in 0..(Min(8 * Len(cEmbed.data), 3 * (Len(cEmbed.pixels) \div 4)) - 1) :
                cEmbed.pixels[4 * (k \div 3) + (k % 3) + 1] % 2 = MsbFirstBit(cEmbed.data, k)
          /\ extractBytes(cEmbed.pixels, WholeBytesPlaced, 0).bytes
                = SubSeq(cEmbed.data, 1, WholeBytesPlaced)
    /\ (cPhase = "read" /\ cExtract.ok) =>
          \A k \in 0..(8 * cExtract.count - 1) :
             MsbFirstBit(cExtract.bytes, k)
                = CanvasStore(cIn.cover.data)[4 * ((cExtract.start + k) \div 3)
                                              + ((cExtract.start + k) % 3) + 1] % 2

\* a container with the byte 97, which reads differently from its two ends,
\* has been written in full
C18_Witness ==
    /\ Embedded
    /\ cEmbed.byteIndex = Len(cEmbed.data)
    /\ WholeBytesPlaced = Len(cEmbed.data)
    /\ \E n \in 1..Len(cEmbed.data) : cEmbed.data[n] = 97

\* the number that the bytes of a sequence spell, most-significant byte first
RECURSIVE BigEndianValue(_)
BigEndianValue(bytes) ==
    IF bytes = <<>> THEN 0
    ELSE 256 * BigEndianValue(SubSeq(bytes, 1, Len(bytes) - 1)) + bytes[Len(bytes)]

\* a byte sequence is laid out as realNameLen (2 bytes), realName,
\* realCipherLen (4 bytes), decoyNameLen (2 bytes), decoyName, decoyCipherLen
\* (4 bytes), realCiphertext, decoyCiphertext, every length big-endian
LaidOut(data, rn, rc, dn, dc) ==
    LET a == 2 + Len(rn)
        b == a + 4
        c == b + 2 + Len(dn)
        d == c + 4
    IN /\ Len(data) = d + Len(rc) + Len(dc)
       /\ BigEndianValue(SubSeq(data, 1, 2)) = Len(rn)
       /\ SubSeq(data, 3, a) = rn
       /\ BigEndianValue(SubSeq(data, a + 1, b)) = Len(rc)
       /\ BigEndianValue(SubSeq(data, b + 1, b + 2)) = Len(dn)
       /\ SubSeq(data, b + 3, c) = dn
       /\ BigEndianValue(SubSeq(data, c + 1, d)) = Len(dc)
       /\ SubSeq(data, d + 1, d + Len(rc)) = rc
       /\ SubSeq(data, d + Len(rc) + 1, Len(data)) = dc

\* C19: the stream built by embedDataInImage is realNameLen (2 bytes),
\* realName, realCipherLen (4 bytes), decoyNameLen (2 bytes), decoyName,
\* decoyCipherLen (4 bytes), realCiphertext, decoyCiphertext, in this order,
\* with every length field big-endian and equal to the length of the field
\* it describes.
C19_ContainerLayout ==
    /\ cPhase \in {"embedded", "extracted"} =>
          LaidOut(cEmbed.data, TextEncode(cIn.realName), cIn.realData,
                  TextEncode(cIn.decoyName), cIn.decoyData)
    /\ cPhase = "header" =>
          LaidOut(cExtract.header, LongNameBytes(cExtract.nameLen), <<>>,
                  TextEncode(cIn.decoyName), <<>>)

\* What does hold: the layout of every stream whose names are shorter than
\* 65536 bytes.
C19_LayoutBelowFieldWidth ==
    /\ cPhase \in {"embedded", "extracted"} =>
          LaidOut(cEmbed.data, TextEncode(cIn.realName), cIn.realData,
                  TextEncode(cIn.decoyName), cIn.decoyData)
    /\ (cPhase = "header" /\ cExtract.nameLen < 65536) =>
          LaidOut(cExtract.header, LongNameBytes(cExtract.nameLen), <<>>,
                  TextEncode(cIn.decoyName), <<>>)

\* C20: handleEmbed never encrypts, embeds, uploads or inserts a metadata row
\* when the real password equals the duress password: a call that got past
\* its guards holds two different passwords, every successful embed was made
\* with two different passwords, and a click with equal passwords leaves
\* only the error message.
C20_DistinctPasswords ==
    /\ eRun.pc # "idle" => eRun.realPassword # eRun.duressPassword
    /\ \A e \in produced : e.realPassword # e.duressPassword
    /\ \A r \in rows : \E e \in produced : e.imageId = r.id
    /\ eError = "Real and duress passwords must be different" =>
          (eRun.pc = "idle" /\ ~eLoading)

\* the button was clicked with all fields filled and equal passwords:
\* nothing was issued, uploaded or inserted
C20_Witness ==
    /\ eError = "Real and duress passwords must be different"
    /\ realPassword # "" /\ realPassword = duressPassword
    /\ coverImage # Null /\ secretFile # Null /\ decoyFile # Null
    /\ eRun.pc = "idle"
    /\ issued = 0 /\ rows = {} /\ bucket = {}

(***************************************************************************)
(* Claims C21..C30                                                         *)
(***************************************************************************)
\* C21: an invalid name length and a read past the available pixel data
\* lead to the same user-facing outcome of handleExtract: the messages shown
\* for the images extractDataFromImage rejected never differ from one
\* another, and no file is extracted.
C21_UniformStructuralFailure ==
    /\ Cardinality(xRun.structural) <= 1
    /\ (xRun.finished /\ xRun.error \in xRun.structural) =>
          (xError = xRun.error /\ extractedFile = Null /\ ~xLoading)

\* What does hold: after a rejected image the call shows the message of
\* extractDataFromImage, extracts no file and clears loading.
C21_StructuralFailureShown ==
    (xRun.finished /\ xRun.error \in xRun.structural) =>
       /\ xError = xRun.error /\ extractedFile = Null /\ ~xLoading
       /\ xRun.structural \subseteq {ErrEnd, ErrRealName, ErrDecoyName}

\* C23: whenever the capacity guard of handleEmbed (capacity.percent <= 100,
\* from the file sizes plus the fixed overhead) lets an embed proceed, the
\* container built from the two ciphertexts and the two file names fits in
\* floor(width * height * 3 / 8) bytes.
C23_CapacityGuardSound ==
    (cPhase = "guard" /\ ~cExtract.rejected) =>
       cExtract.container <= capacityBytes(cIn.cover)

\* What does hold: the guard is sound for files whose ciphertexts are no
\* longer than the files and whose two names take no more than the overhead
\* less the twelve bytes of the length fields.
C23_GuardSoundForShortNames ==
    (cPhase = "guard" /\ ~cExtract.rejected
       /\ Len(TextEncode(cIn.realName)) + Len(TextEncode(cIn.decoyName)) + 12 <= overhead) =>
       cExtract.container <= capacityBytes(cIn.cover)

\* the storage paths of the objects in the bucket and of the metadata rows
BucketPaths == {b.path : b \in bucket}
RowPaths == {r.storage_path : r \in rows}

\* C24: whenever handleEmbed has terminated (and the vault has deleted
\* nothing), the bucket holds a produced image if and only if the table
\* holds its row: a failed insert leaves no uploaded image without a row,
\* and success is reported only when the upload and the insert succeeded.
C24_EmbedAtomicity ==
    (eRun.pc = "idle" /\ vOps = 0) =>
       /\ BucketPaths = RowPaths
       /\ success => (produced # {} /\ RowPaths # {})

\* What does hold: every row has its image, and success is reported only
\* after both the upload and the insert.
C24_RowImpliesImage ==
    (eRun.pc = "idle" /\ vOps = 0) =>
       /\ RowPaths \subseteq BucketPaths
       /\ success => (produced # {} /\ RowPaths # {})

\* the capacity calculateCapacity computes for a selection
FreshCapacity(cover, secret, decoy) ==
    IF cover = Null THEN ZeroCapacity
    ELSE CapacityOf(cover, FileSize(secret), FileSize(decoy))

\* C25: the capacity that the guard of handleEmbed reads is the value
\* computed from the selected cover image, secret file and decoy file, and
\* once no calculation is waiting in img.decode() the capacity state is the
\* one of the current selection: the result of an earlier calculation never
\* stands in place of the result for the later selection.
C25_FreshCapacity ==
    /\ eRun.pc = "encode" =>
          eRun.capacity = FreshCapacity(eRun.coverImage, eRun.secretFile, eRun.decoyFile)
    /\ (activeTab = "embed" /\ calcs = {}) =>
          capacity = FreshCapacity(coverImage, secretFile, decoyFile)

(***************************************************************************)
(* Properties of the vault, checked under SpecVault.                       *)
(***************************************************************************)
\* the identifiers of the images the vault lists
ListedIds == {img.id : img \in myImages}

\* two operations on different images overlapped and both reached their
\* setMyImages call: a ended while the operation on b was in flight
EndedOverlapping(a, b) ==
    /\ a \in vDone /\ a.ok /\ a.id # b.id /\ b.id \in a.with
    /\ \E d \in vDone : d.id = b.id /\ d.ok

\* C26: when two deletions (handleDelete or handleKillSwitch) of two different
\* owned images were started before either completed and both succeeded, then
\* after both completed neither image is in myImages.
C26_NoLostUpdate ==
    \A a \in vDone : \A b \in vDone :
        EndedOverlapping(a, b) => a.id \notin ListedIds /\ b.id \notin ListedIds

\* what the code does guarantee: the operation that ended last removed its own
\* image from the list
C26_OwnImageRemoved ==
    [][\A t \in vTasks :
          Ended(t, TRUE) \in vDone' \ vDone => t.image.id \notin ListedIds']_vars

\* C29: in handleDelete a failure to remove the image from blob storage does
\* not prevent the deletion of the metadata row: whatever the storage call
\* answered, the call goes on to the row deletion.  The image is removed from
\* myImages only if the row deletion succeeded: a call that ends while the row
\* is still in the table leaves myImages unchanged.
C29_DeleteFailureHandling ==
    [][\A t \in vTasks :
          (t.kind = "delete" /\ t \notin vTasks') =>
             /\ t.pc = "storage" => [t EXCEPT !.pc = "row"] \in vTasks'
             /\ t.pc = "row" =>
                   /\ t.image.id \in RowIds(rows') => myImages' = myImages
                   /\ Ended(t, FALSE) \in vDone' \ vDone => myImages' = myImages]_vars

\* a handleDelete whose storage removal failed has deleted its row and left
\* the list, and a handleDelete whose row deletion failed has left its image
\* in the table and in the list
C29_Witness ==
    \E d \in vDone : \E f \in vDone :
        /\ d.kind = "delete" /\ d.ok
        /\ d.id \notin RowIds(rows) /\ d.id \notin ListedIds
        /\ \E o \in bucket : o.path.n = d.id.n
        /\ f.kind = "delete" /\ ~f.ok
        /\ f.id \in RowIds(rows) /\ f.id \in ListedIds

(***************************************************************************)
(* Properties of the share modal, checked under SpecShare.                 *)
(***************************************************************************)
\* C27: every allowed_emails list that addEmail or removeEmail writes to image
\* X is derived from the list loaded from image X: after openShareModal for
\* image A and then for image B, in every interleaving of the two fetch
\* responses, no update written to B is built on the list loaded from A.
C27_ShareListIsolation ==
    \A w \in shareLog : w.from # Null => w.from = w.id

\* the first half of the claim alone: no update is built on a list that was
\* never loaded
C27_UpdateBuiltOnLoadedList ==
    \A w \in shareLog : w.from # Null

(***************************************************************************)
(* Properties of the Extract component, checked under Spec.                *)
(***************************************************************************)
\* C28: in every state where no extraction is in flight, error and
\* extractedFile are never both set; so after a handleExtract call that ended
\* with an error message, the missing-input early return included, no
\* previously extracted file remains available for download.
C28_ResultErrorExclusive ==
    ~xLoading => ~(xError # "" /\ extractedFile # Null)

\* what the code does guarantee: a call that passed the input guard and ended
\* with an error message left no file
C28_GuardedCallClearsFile ==
    [][(xLoading /\ ~xLoading' /\ xError' # "") => extractedFile' = Null]_vars

(***************************************************************************)
(* Properties of the loading flags, checked under SpecLive.                *)
(***************************************************************************)
\* C30: every handleEmbed or handleExtract call that set loading to true
\* eventually sets it back to false, on success and on every error path,
\* provided each awaited call eventually settles; and loading is never true
\* when no operation is in flight.
C30_LoadingClears ==
    /\ [](eLoading => eRun.pc # "idle")
    /\ [](xLoading => xRun.pc # "idle")
    /\ eLoading ~> ~eLoading
    /\ xLoading ~> ~xLoading

\* a handleExtract call that passed the input guard has ended with an error
\* message and loading is false again
C30_Witness ==
    /\ xStarted > 0
    /\ xRun.finished /\ xRun.error # ""
    /\ ~xLoading


=============================================================================
